---- MODULE Spec2Model ----
(***************************************************************************)
(* Korg MS2000 SysEx codec (tools/lib/ms2000_core.py): the 7-bit packer,   *)
(* the scalar field codecs, the 254-byte patch record (parse and build)    *)
(* and the bank container.                                                 *)
(*                                                                         *)
(* Byte buffers that the code indexes from 0 (a patch, a base_patch list)  *)
(* are functions over 0..n-1; byte streams that the code only walks and    *)
(* slices (a file, a packed payload) are sequences, Python index i being   *)
(* element i+1.  A Python dict is a function over its keys, so a missing   *)
(* key is a string outside DOMAIN.  A raised ValueError is the value       *)
(* Raised in the cell being stored, which makes the whole build fail.      *)
(***************************************************************************)
EXTENDS Integers, Sequences, FiniteSets, TLC

VARIABLES
    pc,         \* position of the tool run that is being modelled
    packIn,     \* BitPacker: the 8-bit buffer given to encode_korg_7bit
    packVariant,\* BitPacker: the variant argument
    packEnc,    \* BitPacker: the encoded stream
    packDec,    \* BitPacker: decode_korg_7bit of the encoded stream
    sval,       \* FieldCodec: the signed value given to _to_offset64
    srange,     \* FieldCodec: <<min_val, max_val>>
    sbyte,      \* FieldCodec: what _to_offset64 returned
    sback,      \* FieldCodec: _from_offset64 of the returned byte
    raw,        \* PatchRecord: raw_data of the MS2000Patch being decoded
    jrecord,    \* PatchRecord: the JSON record (decoded, then maybe edited)
    built,      \* PatchRecord: result of build_patch_bytes(record)
    jrecord2,   \* PatchRecord: the record decoded from the built bytes
    changes,    \* number of bytes poked into raw plus fields edited in record
    file,       \* BankContainer: the bytes of the .syx file
    bank,       \* BankContainer: result of load_bank(file)
    records,    \* BankContainer: the decoded records of the bank
    rebuilt,    \* BankContainer: result of encode_bank_from_json(records, ...)
    slotIndex,  \* BankContainer: the index given to slot_name
    slotLabel,  \* BankContainer: what slot_name returned
    repFile,    \* Repair: the bytes of the file given to repair_sysex
    repZeros,   \* Repair: how many 0x00 bytes were appended to the capture
    repPad,     \* Repair: the pad_to_128 argument
    repOut,     \* Repair: report and written bytes of repair_sysex
    repAgain,   \* Repair: the same for a second run on the written file
    lookToken,  \* EnumLookup: the value given to _lookup
    lookTable,  \* EnumLookup: the options given to _lookup
    lookDefault, \* EnumLookup: the default given to _lookup
    lookOut,    \* EnumLookup: what _lookup returned
    rolParts,   \* Roland: address, payloads and checksum byte a file is made of
    rolFile,    \* Roland: the bytes of the file
    rolDecoded, \* Roland: what decode_roland_sysex returned for the file
    rolLoaded,  \* Roland: what load_patch_from_sysex returned for the file
    jpIn,       \* Roland: the argument of _to_offset64 / _from_offset64
    jpOut,      \* Roland: what it returned
    maskIn,     \* FieldCodec: buffer, index, value and mask given to _write_masked
    maskOut,    \* FieldCodec: the buffer after _write_masked
    copyIn,     \* copy_patch: the bytes of the input file, src_idx and dst_idx
    copyOut     \* copy_patch: the bytes written, or the error

vars == <<pc, packIn, packVariant, packEnc, packDec, sval, srange, sbyte, sback,
          raw, jrecord, built, jrecord2, changes, file, bank, records, rebuilt,
          slotIndex, slotLabel, repFile, repZeros, repPad, repOut, repAgain,
          lookToken, lookTable, lookDefault, lookOut,
          rolParts, rolFile, rolDecoded, rolLoaded, jpIn, jpOut,
          maskIn, maskOut, copyIn, copyOut>>

packVars  == <<packIn, packVariant, packEnc, packDec>>
codecVars == <<sval, srange, sbyte, sback>>
patchVars == <<raw, jrecord, built, jrecord2, changes>>
bankVars  == <<file, bank, records, rebuilt>>
slotVars  == <<slotIndex, slotLabel>>
repairVars == <<repFile, repZeros, repPad, repOut, repAgain>>
lookupVars == <<lookToken, lookTable, lookDefault, lookOut>>
\* the variables of the tools added to the first four
rolandVars == <<rolParts, rolFile, rolDecoded, rolLoaded>>
jpVars    == <<jpIn, jpOut>>
maskVars  == <<maskIn, maskOut>>
copyVars  == <<copyIn, copyOut>>
moreVars  == <<rolandVars, jpVars, maskVars, copyVars>>
toolVars  == <<slotVars, repairVars, lookupVars, moreVars>>

-----------------------------------------------------------------------------
(* Bounds of the model *)

\* longest buffer given to the BitPacker (more than one 7-byte group)
MaxPackLen == 8
\* bytes poked into a template patch plus fields edited in a decoded record
MaxChanges == 2
\* patches in a bank file
MaxBankPatches == 2
\* signed values tried around the offset-64 range go from -MaxSigned..MaxSigned
MaxSigned == 66
\* slot indexes tried go this far below 1 and above 128
MaxSlotMargin == 2
\* a capture carries up to this many appended 0x00 bytes
MaxPadding == 40
\* hand-written strings given to _lookup have up to this many pieces
MaxTextLen == 3
\* indexes 0..MaxEnumIndex are decoded to tokens and looked up again
MaxEnumIndex == 12

-----------------------------------------------------------------------------
(* Bit arithmetic on Python ints *)

Pow2(k) == CASE k = 0 -> 1 [] k = 1 -> 2 [] k = 2 -> 4 [] k = 3 -> 8
             [] k = 4 -> 16 [] k = 5 -> 32 [] k = 6 -> 64 [] k = 7 -> 128

\* (x >> k) & 1, also for a negative x (two's complement, as Python's & does)
Bit(x, k) == (x \div Pow2(k)) % 2

\* a & b for a mask b in 0..255
BitAnd(a, b) ==
      Bit(a, 0) * Bit(b, 0)       + 2 * Bit(a, 1) * Bit(b, 1)
    + 4 * Bit(a, 2) * Bit(b, 2)   + 8 * Bit(a, 3) * Bit(b, 3)
    + 16 * Bit(a, 4) * Bit(b, 4)  + 32 * Bit(a, 5) * Bit(b, 5)
    + 64 * Bit(a, 6) * Bit(b, 6)  + 128 * Bit(a, 7) * Bit(b, 7)

\* a | b for a, b in 0..255
BitOr(a, b) == a + b - BitAnd(a, b)

Min(a, b) == IF a < b THEN a ELSE b
Max(a, b) == IF a > b THEN a ELSE b

PATCH_SIZE == 254

\* the value stored where the code raised ValueError instead of storing a byte
Raised == -1

-----------------------------------------------------------------------------
(* BitPacker: decode_korg_7bit / encode_korg_7bit *)

\* the bytes of one group: for j in range(chunk_len)
RECURSIVE DecodeChunk(_, _, _, _)
DecodeChunk(encoded_data, i, j, chunk_len) ==
    IF j >= chunk_len THEN <<>>
    ELSE LET msb_byte  == encoded_data[i + 1]
             data_byte == encoded_data[i + 1 + j + 1]
             msb       == Bit(msb_byte, 6 - j)
             full_byte == msb * 128 + (data_byte % 128)
         IN  <<full_byte>> \o DecodeChunk(encoded_data, i, j + 1, chunk_len)

\* while i < len(encoded_data)
RECURSIVE DecodeFrom(_, _)
DecodeFrom(encoded_data, i) ==
    IF i >= Len(encoded_data) THEN <<>>
    ELSE LET remaining == Len(encoded_data) - (i + 1)
             chunk_len == Min(7, remaining)
         IN  DecodeChunk(encoded_data, i, 0, chunk_len)
                 \o DecodeFrom(encoded_data, i + 1 + chunk_len)

decode_korg_7bit(encoded_data) == DecodeFrom(encoded_data, 0)

\* an encoder that packs every variant in v2's bit order
MsbBitReversed(variant, j) == Pow2(j)

\* msb_byte |= 1 << j (v2) or 1 << (6 - j) (any other variant)
MsbBit(variant, j) == IF variant = "v2" THEN Pow2(j) ELSE Pow2(6 - j)

RECURSIVE MsbByte(_, _, _)
MsbByte(chunk, j, variant) ==
    IF j >= Len(chunk) THEN 0
    ELSE (IF chunk[j + 1] >= 128 THEN MsbBit(variant, j) ELSE 0)
             + MsbByte(chunk, j + 1, variant)

RECURSIVE EncodeFrom(_, _, _)
EncodeFrom(decoded_data, i, variant) ==
    IF i >= Len(decoded_data) THEN <<>>
    ELSE LET chunk == SubSeq(decoded_data, i + 1, Min(i + 7, Len(decoded_data)))
         IN  <<MsbByte(chunk, 0, variant)>>
                 \o [k \in 1..Len(chunk) |-> chunk[k] % 128]
                 \o EncodeFrom(decoded_data, i + 7, variant)

encode_korg_7bit(decoded_data, variant) == EncodeFrom(decoded_data, 0, variant)

-----------------------------------------------------------------------------
(* FieldCodec: offset-64, masked write *)

\* _to_offset64 with the range test off by one at the upper end
ToOffset64Loose(value, min_val, max_val) ==
    IF value < min_val \/ value > max_val + 1
    THEN [raised |-> TRUE, value |-> 0]
    ELSE [raised |-> FALSE, value |-> value + 64]

\* raised: ValueError("Offset-64 value out of range"); else value + 64
_to_offset64(value, min_val, max_val) ==
    IF value < min_val \/ value > max_val
    THEN [raised |-> TRUE, value |-> 0]
    ELSE [raised |-> FALSE, value |-> value + 64]

_from_offset64(byte_value) == byte_value - 64

\* the deprecated helper, kept by the code but called nowhere
_to_signed_7bit(value) ==
    IF value < -64 \/ value > 63
    THEN [raised |-> TRUE, value |-> 0]
    ELSE [raised |-> FALSE,
          value |-> IF value < 0 THEN (value + 128) % 128 ELSE value % 128]

\* a store that clears the bits outside the mask
MaskedByteCleared(current, value, mask) == BitAnd(value, mask)

\* the byte _write_masked leaves at data[index]
MaskedByte(current, value, mask) ==
    BitAnd(current, 255 - mask) + BitAnd(value, mask)

_write_masked(data, index, value, mask) ==
    [data EXCEPT ![index] = MaskedByte(@, value, mask)]

_clamp_byte(value) == Max(0, Min(255, value))

-----------------------------------------------------------------------------
(* Python values of the enum-like record fields.  A field that the code    *)
(* passes to _lookup may hold an int, a string or None; strings are kept   *)
(* by what _lookup can tell about them: a plain name, the decimal string   *)
(* of n ("3", "-2"), or a bracketed token "LABEL(n)" as _map_choice makes. *)
(* Any other string is a Text: the sequence of its pieces, a piece being   *)
(* one character where _lookup looks at characters (digits, "-", "(", ")", *)
(* blanks) and a run of other characters kept whole.                       *)

Str(s)         == [t |-> "str",      s |-> s,  n |-> 0]
Int_(n)        == [t |-> "int",      s |-> "", n |-> n]
NumStr(n)      == [t |-> "numstr",   s |-> "", n |-> n]
Bracketed(l, n) == [t |-> "bracketed", s |-> l, n |-> n]
None           == [t |-> "none",     s |-> "", n |-> 0]
Text(pieces)   == [t |-> "text", s |-> "", n |-> 0, pieces |-> pieces]

EmptyDict == [k \in {} |-> 0]

\* dict.get(key, default)
Get(d, key, default) == IF key \in DOMAIN d THEN d[key] ELSE default

\* list.index(value) of a list without duplicates; -1 stands for ValueError
IndexOf(options, s) ==
    IF \E i \in 1..Len(options) : options[i] = s
    THEN (CHOOSE i \in 1..Len(options) : options[i] = s) - 1
    ELSE -1

VOICE_MODES == <<"Single", "Split", "Layer", "Vocoder">>
SCALE_KEYS  == <<"C", "C#", "D", "D#", "E", "F", "F#", "G", "G#", "A", "A#", "B">>
DELAY_TYPES == <<"StereoDelay", "CrossDelay", "L/R Delay">>
MOD_TYPES   == <<"Cho/Flg", "Ensemble", "Phaser">>
ARP_TYPES   == <<"Up", "Down", "Alt1", "Alt2", "Random", "Trigger">>

OSC1_WAVES == <<"Saw", "Pulse", "Triangle", "Sine", "Vox Wave", "DWGS", "Noise", "Audio In">>
OSC2_WAVES == <<"Saw", "Square", "Triangle">>
MOD_SELECT == <<"Off", "Ring", "Sync", "Ring+Sync">>
FILTER_TYPES == <<"24dB LPF", "12dB LPF", "12dB BPF", "12dB HPF">>
LFO1_WAVES == <<"Saw", "Square", "Triangle", "S/H">>
LFO2_WAVES == <<"Saw", "Square+", "Sine", "S/H">>
PATCH_SOURCE_NAMES == <<"EG1", "EG2", "LFO1", "LFO2", "Velocity", "KeyTrack", "MIDI1", "MIDI2">>
PATCH_DEST_NAMES == <<"PITCH", "OSC2PITCH", "OSC1CTRL1", "OSC1CTRL2", "CUTOFF", "RESONANCE", "LFO1FREQ", "LFO2FREQ">>

_map_choice(options, index, label) ==
    IF 0 <= index /\ index < Len(options)
    THEN Str(options[index + 1])
    ELSE Bracketed(label, index)

\* self.X[idx] if idx < len(self.X) else str(idx)
NameOrNumber(options, idx) ==
    IF idx < Len(options) THEN Str(options[idx + 1]) ELSE NumStr(idx)

DecimalDigits == <<"0", "1", "2", "3", "4", "5", "6", "7", "8", "9">>

\* characters for which str.isdigit() is true and that int() rejects; the
\* piece stands for U+00B2
OtherDigits == {"SUPERSCRIPT TWO"}

Whitespace == {" "}

IsDecimalDigit(c) == \E d \in 1..10 : DecimalDigits[d] = c

\* str(n) of n >= 0
RECURSIVE DigitsOf(_)
DigitsOf(n) ==
    IF n < 10 THEN <<DecimalDigits[n + 1]>>
    ELSE DigitsOf(n \div 10) \o <<DecimalDigits[(n % 10) + 1]>>

\* str(n)
StrOfInt(n) == IF n < 0 THEN <<"-">> \o DigitsOf(0 - n) ELSE DigitsOf(n)

\* the pieces of a string token
Pieces(value) ==
    CASE value.t = "text"      -> value.pieces
      [] value.t = "str"       -> <<value.s>>
      [] value.t = "numstr"    -> StrOfInt(value.n)
      [] value.t = "bracketed" -> <<value.s, "(">> \o StrOfInt(value.n) \o <<")">>

IsStr(value) == value.t \in {"text", "str", "numstr", "bracketed"}

\* str.strip()
RECURSIVE StripLeft(_)
StripLeft(text) ==
    IF text # <<>> /\ Head(text) \in Whitespace THEN StripLeft(Tail(text)) ELSE text

RECURSIVE StripRight(_)
StripRight(text) ==
    IF text # <<>> /\ text[Len(text)] \in Whitespace
    THEN StripRight(SubSeq(text, 1, Len(text) - 1)) ELSE text

Strip(text) == StripRight(StripLeft(text))

\* str.isdigit()
IsDigit(text) ==
    /\ text # <<>>
    /\ \A i \in 1..Len(text) : IsDecimalDigit(text[i]) \/ text[i] \in OtherDigits

\* int(text) of digits: the value of a run of decimal digits
RECURSIVE DecimalValue(_)
DecimalValue(text) ==
    IF text = <<>> THEN 0
    ELSE DecimalValue(SubSeq(text, 1, Len(text) - 1)) * 10
            + ((CHOOSE d \in 1..10 : DecimalDigits[d] = text[Len(text)]) - 1)

\* int(text) raises ValueError: a digit that is not a decimal digit
IntRaises(text) == \E i \in 1..Len(text) : text[i] \in OtherDigits

\* str.rfind("("), 1-based here; 0 when there is none
RFindParen(text) ==
    CHOOSE i \in 0..Len(text) :
        /\ i = 0 \/ text[i] = "("
        /\ \A j \in (i + 1)..Len(text) : text[j] # "("

Returned(v) == [raised |-> FALSE, value |-> v]

LookupError == [raised |-> TRUE, value |-> 0]

\* int(text) as _lookup returns it
IntOf(sign, text) ==
    IF IntRaises(text) THEN LookupError ELSE Returned(sign * DecimalValue(text))

\* try: options.index(value) except ValueError: default (value not stripped)
IndexOrDefault(options, text, default) ==
    IF Len(text) = 1 /\ IndexOf(options, text[1]) >= 0
    THEN Returned(IndexOf(options, text[1]))
    ELSE Returned(default)

\* the tests of _lookup on the stripped string, in their order; inner is
\* stripped[stripped.rfind("(") + 1 : -1]
LookupStripped(options, text, stripped, inner, default) ==
    IF stripped # <<>> /\ Head(stripped) = "-" /\ IsDigit(Tail(stripped))
    THEN IntOf(-1, Tail(stripped))
    ELSE IF IsDigit(stripped)
    THEN IntOf(1, stripped)
    ELSE IF (\E i \in 1..Len(stripped) : stripped[i] = "(")
             /\ stripped[Len(stripped)] = ")"
             /\ IsDigit(inner)
    THEN IntOf(1, inner)
    ELSE IndexOrDefault(options, text, default)

\* stripped = value.strip()
LookupStr(options, text, stripped, default) ==
    LookupStripped(options, text, stripped,
                   SubSeq(stripped, RFindParen(stripped) + 1, Len(stripped) - 1),
                   default)

\* value: an int or a token as above; default is returned as it is;
\* raised: the ValueError of int() left the function
_lookup(options, value, default) ==
    IF value.t = "int" THEN Returned(value.n)
    ELSE IF IsStr(value)
    THEN LookupStr(options, Pieces(value), Strip(Pieces(value)), default)
    ELSE Returned(default)

\* the index build_patch_bytes goes on with; a lookup that raised ends
\* build_patch_bytes through LookupValues
Index(result) == result.value

-----------------------------------------------------------------------------
(* PatchRecord, decode side: MS2000Patch, _extract_timbre,                 *)
(* extract_full_parameters.  A name is the sequence of its code points.    *)

REPLACEMENT == 65533

\* the characters str.rstrip() removes, among those ASCII decoding yields
IsSpace(c) == c \in (9..13) \cup (28..32)

\* bytes.decode("ascii", errors="replace")
DecodeAscii(d, first, count) ==
    [k \in 1..count |-> IF d[first + k - 1] < 128 THEN d[first + k - 1] ELSE REPLACEMENT]

RStrip(s) ==
    LET keep == {k \in 0..Len(s) : k = 0 \/ ~IsSpace(s[k])}
        n    == CHOOSE k \in keep : \A m \in keep : m <= k
    IN  SubSeq(s, 1, n)

\* MS2000Patch.__init__ and _parse; data is a buffer of at least PATCH_SIZE bytes
MS2000Patch(data) ==
    LET d == [i \in 0..(PATCH_SIZE - 1) |-> data[i]]
        scale_key_idx == (d[17] \div 16) % 16
    IN  [ raw_data       |-> d,
          name           |-> RStrip(DecodeAscii(d, 0, 12)),
          timbre_voice   |-> (d[16] \div 64) % 4,
          voice_mode     |-> Str(VOICE_MODES[((d[16] \div 16) % 4) + 1]),
          scale_key      |-> IF scale_key_idx < 12
                             THEN Str(SCALE_KEYS[scale_key_idx + 1])
                             ELSE NumStr(scale_key_idx),
          scale_type     |-> d[17] % 16,
          split_point    |-> d[18],
          delay_sync     |-> Bit(d[19], 7) = 1,
          delay_timebase |-> d[19] % 16,
          delay_time     |-> d[20],
          delay_depth    |-> d[21],
          delay_type     |-> NameOrNumber(DELAY_TYPES, d[22]),
          mod_speed      |-> d[23],
          mod_depth      |-> d[24],
          mod_type       |-> NameOrNumber(MOD_TYPES, d[25]),
          eq_hi_freq     |-> d[26],
          eq_hi_gain     |-> d[27],
          eq_low_freq    |-> d[28],
          eq_low_gain    |-> d[29],
          arp_tempo      |-> d[30] * 256 + d[31],
          arp_on         |-> Bit(d[32], 7) = 1,
          arp_latch      |-> Bit(d[32], 6) = 1,
          arp_target     |-> (d[32] \div 16) % 4,
          arp_keysync    |-> Bit(d[32], 0) = 1,
          arp_type       |-> NameOrNumber(ARP_TYPES, d[33] % 16),
          arp_range      |-> ((d[33] \div 16) % 16) + 1 ]

\* one slot of the modulation matrix, i in range(4)
ExtractRoute(d, offset, i) ==
    [ source      |-> _map_choice(PATCH_SOURCE_NAMES, d[offset + 44 + (i * 2)] % 16, "SRC"),
      destination |-> _map_choice(PATCH_DEST_NAMES, (d[offset + 44 + (i * 2)] \div 16) % 16, "DEST"),
      intensity   |-> _from_offset64(d[offset + 45 + (i * 2)] % 128) ]

\* the decoder's test for the amp switch
AmpSwitchBit(byte27) == Bit(byte27, 0) = 1

_extract_timbre(d, offset) ==
    LET osc1_wave_val == d[offset + 7] % 8
        osc2_byte     == d[offset + 12]
        osc2_wave_val == osc2_byte % 4
        osc2_mod_val  == (osc2_byte \div 16) % 4
        filt_type_val == d[offset + 19] % 4
        lfo1_wave_val == d[offset + 38] % 4
        lfo2_wave_val == d[offset + 41] % 4
    IN  [ voice |-> [ portamento_time |-> d[offset + 5] ],
          osc1  |-> [ wave       |-> _map_choice(OSC1_WAVES, osc1_wave_val, "OSC1"),
                      wave_value |-> osc1_wave_val,
                      ctrl1      |-> d[offset + 8],
                      ctrl2      |-> d[offset + 9],
                      dwgs_wave  |-> d[offset + 10] + 1 ],
          osc2  |-> [ wave       |-> _map_choice(OSC2_WAVES, osc2_wave_val, "OSC2"),
                      wave_value |-> osc2_wave_val,
                      modulation |-> _map_choice(MOD_SELECT, osc2_mod_val, "MOD"),
                      mod_value  |-> osc2_mod_val,
                      semitone   |-> _from_offset64(d[offset + 13] % 128),
                      tune       |-> _from_offset64(d[offset + 14] % 128) ],
          mixer |-> [ osc1_level  |-> d[offset + 16],
                      osc2_level  |-> d[offset + 17],
                      noise_level |-> d[offset + 18] ],
          filter |-> [ type           |-> _map_choice(FILTER_TYPES, filt_type_val, "FILTER"),
                       type_value     |-> filt_type_val,
                       cutoff         |-> d[offset + 20],
                       resonance      |-> d[offset + 21],
                       eg1_intensity  |-> _from_offset64(d[offset + 22] % 128),
                       velocity_sense |-> _from_offset64(d[offset + 23] % 128),
                       kbd_track      |-> _from_offset64(d[offset + 24] % 128) ],
          amp   |-> [ level          |-> d[offset + 25],
                      panpot         |-> _from_offset64(d[offset + 26] % 128),
                      switch         |-> IF AmpSwitchBit(d[offset + 27]) THEN "GATE" ELSE "EG2",
                      distortion     |-> Bit(d[offset + 27], 0) = 1,
                      kbd_track      |-> _from_offset64(d[offset + 29] % 128),
                      velocity_sense |-> _from_offset64(d[offset + 28] % 128) ],
          eg1   |-> [ attack  |-> d[offset + 30], decay   |-> d[offset + 31],
                      sustain |-> d[offset + 32], release |-> d[offset + 33] ],
          eg2   |-> [ attack  |-> d[offset + 34], decay   |-> d[offset + 35],
                      sustain |-> d[offset + 36], release |-> d[offset + 37] ],
          lfo1  |-> [ wave        |-> _map_choice(LFO1_WAVES, lfo1_wave_val, "LFO1"),
                      wave_value  |-> lfo1_wave_val,
                      frequency   |-> d[offset + 39],
                      tempo_sync  |-> Bit(d[offset + 40], 0) = 1,
                      tempo_value |-> d[offset + 40] ],
          lfo2  |-> [ wave        |-> _map_choice(LFO2_WAVES, lfo2_wave_val, "LFO2"),
                      wave_value  |-> lfo2_wave_val,
                      frequency   |-> d[offset + 42],
                      tempo_sync  |-> Bit(d[offset + 43], 0) = 1,
                      tempo_value |-> d[offset + 43] ],
          patch |-> [ patch1 |-> ExtractRoute(d, offset, 0),
                      patch2 |-> ExtractRoute(d, offset, 1),
                      patch3 |-> ExtractRoute(d, offset, 2),
                      patch4 |-> ExtractRoute(d, offset, 3) ] ]

TIMBRE1_OFFSET == 38
TIMBRE2_OFFSET == 134

\* voice_mode in ("Split", "Layer"), as the decoder and the builder both test it
IsDual(voice_mode) == voice_mode \in {Str("Split"), Str("Layer")}

\* the keys every decoded record has
ExtractCommon(patch) ==
    [ name         |-> patch.name,
      voice_mode   |-> patch.voice_mode,
      timbre_voice |-> patch.timbre_voice,
      scale        |-> [ key         |-> patch.scale_key,
                         type        |-> patch.scale_type,
                         split_point |-> patch.split_point ],
      effects      |-> [ delay  |-> [ type     |-> patch.delay_type,
                                      sync     |-> patch.delay_sync,
                                      time     |-> patch.delay_time,
                                      depth    |-> patch.delay_depth,
                                      timebase |-> patch.delay_timebase ],
                         mod_fx |-> [ type  |-> patch.mod_type,
                                      speed |-> patch.mod_speed,
                                      depth |-> patch.mod_depth ],
                         eq     |-> [ hi_freq  |-> patch.eq_hi_freq,
                                      hi_gain  |-> patch.eq_hi_gain,
                                      low_freq |-> patch.eq_low_freq,
                                      low_gain |-> patch.eq_low_gain ] ],
      arpeggiator  |-> [ on      |-> patch.arp_on,
                         tempo   |-> patch.arp_tempo,
                         latch   |-> patch.arp_latch,
                         target  |-> patch.arp_target,
                         keysync |-> patch.arp_keysync,
                         type    |-> patch.arp_type,
                         range   |-> patch.arp_range ],
      timbre1      |-> _extract_timbre(patch.raw_data, TIMBRE1_OFFSET),
      system       |-> [ base_patch |-> patch.raw_data ] ]

extract_full_parameters(patch) ==
    IF IsDual(patch.voice_mode)
    THEN ExtractCommon(patch) @@ [ timbre2 |-> _extract_timbre(patch.raw_data, TIMBRE2_OFFSET) ]
    ELSE ExtractCommon(patch)

-----------------------------------------------------------------------------
(* PatchRecord, encode side: build_patch_bytes *)

ZeroPatch == [i \in 0..(PATCH_SIZE - 1) |-> 0]

\* len() of a list held as a function over 0..n-1
ListLen(l) == Cardinality(DOMAIN l)

\* a builder that ignores system.base_patch and always starts from zeros
SeedDataZero(record) == ZeroPatch

\* base_patch[:PATCH_SIZE], each int(b) & 0xFF, zero-extended; a fresh bytearray
SeedData(record) ==
    LET system     == Get(record, "system", EmptyDict)
        base_patch == Get(system, "base_patch", EmptyDict)
    IN  IF ListLen(base_patch) > 0
        THEN [i \in 0..(PATCH_SIZE - 1) |->
                 IF i < ListLen(base_patch) THEN base_patch[i] % 256 ELSE 0]
        ELSE ZeroPatch

\* name = (record.get("name") or "")[:12]; written only if every char is ASCII
EncodeName(data, record) ==
    LET full == Get(record, "name", <<>>)
        name == SubSeq(full, 1, Min(12, Len(full)))
    IN  IF \A k \in 1..Len(name) : name[k] < 128
        THEN [i \in 0..(PATCH_SIZE - 1) |->
                 IF i < 12 THEN (IF i < Len(name) THEN name[i + 1] ELSE 32)
                 ELSE data[i]]
        ELSE data

\* data[i] = v on a bytearray: ValueError unless v is in range(256)
Store(v) == IF v \in 0..255 THEN v ELSE Raised

\* the store with the signed-7-bit form (value + 128 if negative) of the value
SignedMasked(current, r, mask) ==
    IF r.raised THEN Raised ELSE MaskedByte(current, _to_signed_7bit(r.value - 64).value, mask)

\* an argument _to_offset64(...) that raises aborts the store
Offset64Masked(current, r, mask) ==
    IF r.raised THEN Raised ELSE MaskedByte(current, r.value, mask)

Offset64Byte(r) == IF r.raised THEN Raised ELSE r.value % 128

\* str(value).upper() for the spellings of the amp switch in use
Upper(s) == CASE s \in {"gate", "Gate"} -> "GATE"
              [] s \in {"eg2", "Eg2"}   -> "EG2"
              [] OTHER                  -> s

\* bytes 16..33
EncodeGlobals(data, record) ==
    LET voice_mode   == Get(record, "voice_mode", Str("Single"))
        voice_idx    == Index(_lookup(VOICE_MODES, voice_mode, 0))
        timbre_voice == Get(record, "timbre_voice", 1) % 4
        combined_voice == (timbre_voice % 4) * 64 + (voice_idx % 4) * 16
        scale        == Get(record, "scale", EmptyDict)
        key_idx      == Index(_lookup(SCALE_KEYS, Get(scale, "key", Str("C")), 0))
        scale_type   == Get(scale, "type", 0) % 16
        effects      == Get(record, "effects", EmptyDict)
        delay        == Get(effects, "delay", EmptyDict)
        delay_sync   == Get(delay, "sync", FALSE)
        delay_timebase == Get(delay, "timebase", 0) % 16
        mod_fx       == Get(effects, "mod_fx", EmptyDict)
        eq           == Get(effects, "eq", EmptyDict)
        arp          == Get(record, "arpeggiator", EmptyDict)
        tempo        == Get(arp, "tempo", 120)
        byte32       == (IF Get(arp, "on", FALSE) THEN 128 ELSE 0)
                        + (IF Get(arp, "latch", FALSE) THEN 64 ELSE 0)
                        + (Get(arp, "target", 0) % 4) * 16
                        + (IF Get(arp, "keysync", FALSE) THEN 1 ELSE 0)
        arp_type_idx == Index(_lookup(ARP_TYPES, Get(arp, "type", Str("Up")), 0))
        arp_range    == Max(1, Min(16, Get(arp, "range", 1)))
    IN  [data EXCEPT
           ![16] = MaskedByte(@, combined_voice, 240),
           ![17] = (key_idx % 16) * 16 + scale_type,
           ![18] = _clamp_byte(Get(scale, "split_point", 0)),
           ![19] = (IF delay_sync THEN 128 ELSE 0) + delay_timebase,
           ![20] = _clamp_byte(Get(delay, "time", 0)),
           ![21] = _clamp_byte(Get(delay, "depth", 0)),
           ![22] = Store(Index(_lookup(DELAY_TYPES, Get(delay, "type", Str("StereoDelay")), 0))),
           ![23] = _clamp_byte(Get(mod_fx, "speed", 0)),
           ![24] = _clamp_byte(Get(mod_fx, "depth", 0)),
           ![25] = Store(Index(_lookup(MOD_TYPES, Get(mod_fx, "type", Str("Cho/Flg")), 0))),
           ![26] = _clamp_byte(Get(eq, "hi_freq", 0)),
           ![27] = _clamp_byte(Get(eq, "hi_gain", 0)),
           ![28] = _clamp_byte(Get(eq, "low_freq", 0)),
           ![29] = _clamp_byte(Get(eq, "low_gain", 0)),
           ![30] = (tempo \div 256) % 256,
           ![31] = tempo % 256,
           ![32] = byte32,
           ![33] = (arp_range - 1) * 16 + (arp_type_idx % 16)]

\* tempo_byte of an LFO: tempo_value (or the sync flag) with bit 0 forced to the flag
LfoTempoByte(lfo) ==
    LET sync       == Get(lfo, "tempo_sync", FALSE)
        tempo_byte == IF "tempo_value" \in DOMAIN lfo
                      THEN lfo.tempo_value % 256
                      ELSE (IF sync THEN 1 ELSE 0)
    IN  IF sync THEN BitOr(tempo_byte, 1) ELSE BitAnd(tempo_byte, 254)

\* byte +27: the voice mode is compared as the record gives it
AmpByte(current, amp, voice_mode) ==
    LET gate_flag       == IF Upper(Get(amp, "switch", "EG2")) = "GATE" THEN 64 ELSE 0
        distortion_flag == IF Get(amp, "distortion", FALSE) THEN 1 ELSE 0
    IN  IF voice_mode \in {Str("Single"), Str("Split")}
        THEN BitOr(BitOr(64, gate_flag), distortion_flag)
        ELSE BitOr(BitOr(BitAnd(current, 255 - 65), gate_flag), distortion_flag)

\* source and destination byte of a route
RouteByte(route) ==
    LET src_idx == Index(_lookup(PATCH_SOURCE_NAMES, Get(route, "source", Str("EG1")), 0))
        dst_idx == Index(_lookup(PATCH_DEST_NAMES, Get(route, "destination", Str("PITCH")), 0))
    IN  (dst_idx % 16) * 16 + (src_idx % 16)

RouteIntensity(route) == Offset64Byte(_to_offset64(Get(route, "intensity", 0), -64, 63))

\* range of osc2 semitone that the builder accepts
SEMITONE_MIN == -24
SEMITONE_MAX == 24

encode_timbre(data, timbre, offset, voice_mode) ==
    IF DOMAIN timbre = {} THEN data
    ELSE
    LET voice  == Get(timbre, "voice", EmptyDict)
        osc1   == Get(timbre, "osc1", EmptyDict)
        wave1_idx == Index(_lookup(OSC1_WAVES, Get(osc1, "wave", None), Get(osc1, "wave_value", 0)))
        dwgs   == Get(osc1, "dwgs_wave", 0) - 1
        osc2   == Get(timbre, "osc2", EmptyDict)
        wave2_idx == Index(_lookup(OSC2_WAVES, Get(osc2, "wave", None), Get(osc2, "wave_value", 0)))
        mod_idx == Index(_lookup(MOD_SELECT, Get(osc2, "modulation", Str("Off")), Get(osc2, "mod_value", 0)))
        mixer  == Get(timbre, "mixer", EmptyDict)
        filt   == Get(timbre, "filter", EmptyDict)
        filter_idx == Index(_lookup(FILTER_TYPES, Get(filt, "type", None), Get(filt, "type_value", 0)))
        amp    == Get(timbre, "amp", EmptyDict)
        eg1    == Get(timbre, "eg1", EmptyDict)
        eg2    == Get(timbre, "eg2", EmptyDict)
        lfo1   == Get(timbre, "lfo1", EmptyDict)
        lfo1_idx == Index(_lookup(LFO1_WAVES, Get(lfo1, "wave", None), Get(lfo1, "wave_value", 0)))
        lfo2   == Get(timbre, "lfo2", EmptyDict)
        lfo2_idx == Index(_lookup(LFO2_WAVES, Get(lfo2, "wave", None), Get(lfo2, "wave_value", 0)))
        patch_matrix == Get(timbre, "patch", EmptyDict)
        route1 == Get(patch_matrix, "patch1", EmptyDict)
        route2 == Get(patch_matrix, "patch2", EmptyDict)
        route3 == Get(patch_matrix, "patch3", EmptyDict)
        route4 == Get(patch_matrix, "patch4", EmptyDict)
    IN  [data EXCEPT
           ![offset + 5]  = _clamp_byte(Get(voice, "portamento_time", 0)),
           ![offset + 7]  = MaskedByte(@, wave1_idx, 7),
           ![offset + 8]  = _clamp_byte(Get(osc1, "ctrl1", 0)),
           ![offset + 9]  = _clamp_byte(Get(osc1, "ctrl2", 0)),
           ![offset + 10] = IF "dwgs_wave" \in DOMAIN osc1 /\ 0 <= dwgs /\ dwgs <= 63
                            THEN MaskedByte(@, dwgs, 63) ELSE @,
           ![offset + 12] = MaskedByte(MaskedByte(@, wave2_idx, 3), (mod_idx % 4) * 16, 48),
           ![offset + 13] = Offset64Masked(@, _to_offset64(Get(osc2, "semitone", 0), SEMITONE_MIN, SEMITONE_MAX), 127),
           ![offset + 14] = Offset64Masked(@, _to_offset64(Get(osc2, "tune", 0), -64, 63), 127),
           ![offset + 16] = _clamp_byte(Get(mixer, "osc1_level", 0)),
           ![offset + 17] = _clamp_byte(Get(mixer, "osc2_level", 0)),
           ![offset + 18] = _clamp_byte(Get(mixer, "noise_level", 0)),
           ![offset + 19] = MaskedByte(@, filter_idx, 3),
           ![offset + 20] = _clamp_byte(Get(filt, "cutoff", 0)),
           ![offset + 21] = _clamp_byte(Get(filt, "resonance", 0)),
           ![offset + 22] = Offset64Masked(@, _to_offset64(Get(filt, "eg1_intensity", 0), -64, 63), 127),
           ![offset + 23] = Offset64Masked(@, _to_offset64(Get(filt, "velocity_sense", 0), -64, 63), 127),
           ![offset + 24] = Offset64Masked(@, _to_offset64(Get(filt, "kbd_track", 0), -64, 63), 127),
           ![offset + 25] = _clamp_byte(Get(amp, "level", 0)),
           ![offset + 26] = Offset64Masked(@, _to_offset64(Get(amp, "panpot", 0), -64, 63), 127),
           ![offset + 27] = AmpByte(@, amp, voice_mode),
           ![offset + 28] = Offset64Masked(@, _to_offset64(Get(amp, "velocity_sense", 0), -64, 63), 127),
           ![offset + 29] = Offset64Masked(@, _to_offset64(Get(amp, "kbd_track", 0), -64, 63), 127),
           ![offset + 30] = _clamp_byte(Get(eg1, "attack", 0)),
           ![offset + 31] = _clamp_byte(Get(eg1, "decay", 0)),
           ![offset + 32] = _clamp_byte(Get(eg1, "sustain", 0)),
           ![offset + 33] = _clamp_byte(Get(eg1, "release", 0)),
           ![offset + 34] = _clamp_byte(Get(eg2, "attack", 0)),
           ![offset + 35] = _clamp_byte(Get(eg2, "decay", 0)),
           ![offset + 36] = _clamp_byte(Get(eg2, "sustain", 0)),
           ![offset + 37] = _clamp_byte(Get(eg2, "release", 0)),
           ![offset + 38] = MaskedByte(@, lfo1_idx, 3),
           ![offset + 39] = _clamp_byte(Get(lfo1, "frequency", 0)),
           ![offset + 40] = LfoTempoByte(lfo1),
           ![offset + 41] = MaskedByte(@, lfo2_idx, 3),
           ![offset + 42] = _clamp_byte(Get(lfo2, "frequency", 0)),
           ![offset + 43] = LfoTempoByte(lfo2),
           ![offset + 44] = RouteByte(route1),
           ![offset + 45] = RouteIntensity(route1),
           ![offset + 46] = RouteByte(route2),
           ![offset + 47] = RouteIntensity(route2),
           ![offset + 48] = RouteByte(route3),
           ![offset + 49] = RouteIntensity(route3),
           ![offset + 50] = RouteByte(route4),
           ![offset + 51] = RouteIntensity(route4)]

\* a builder that overlays the second timbre in every voice mode
EncodeTimbresAlways(data, record) ==
    LET voice_mode == Get(record, "voice_mode", Str("Single"))
        t1 == encode_timbre(data, Get(record, "timbre1", EmptyDict), TIMBRE1_OFFSET, voice_mode)
    IN  encode_timbre(t1, Get(record, "timbre2", EmptyDict), TIMBRE2_OFFSET, voice_mode)

\* encode_timbre(timbre1, 38); if voice_mode in ("Split", "Layer"): encode_timbre(timbre2, 134)
EncodeTimbres(data, record) ==
    LET voice_mode == Get(record, "voice_mode", Str("Single"))
        t1 == encode_timbre(data, Get(record, "timbre1", EmptyDict), TIMBRE1_OFFSET, voice_mode)
    IN  IF IsDual(voice_mode)
        THEN encode_timbre(t1, Get(record, "timbre2", EmptyDict), TIMBRE2_OFFSET, voice_mode)
        ELSE t1

\* the values encode_timbre hands to _lookup
TimbreLookups(timbre) ==
    IF DOMAIN timbre = {} THEN {}
    ELSE LET patch_matrix == Get(timbre, "patch", EmptyDict)
             routes == {Get(patch_matrix, key, EmptyDict) :
                           key \in {"patch1", "patch2", "patch3", "patch4"}}
         IN  { Get(Get(timbre, "osc1", EmptyDict), "wave", None),
               Get(Get(timbre, "osc2", EmptyDict), "wave", None),
               Get(Get(timbre, "osc2", EmptyDict), "modulation", Str("Off")),
               Get(Get(timbre, "filter", EmptyDict), "type", None),
               Get(Get(timbre, "lfo1", EmptyDict), "wave", None),
               Get(Get(timbre, "lfo2", EmptyDict), "wave", None) }
             \cup {Get(route, "source", Str("EG1")) : route \in routes}
             \cup {Get(route, "destination", Str("PITCH")) : route \in routes}

\* the values build_patch_bytes hands to _lookup
LookupValues(record) ==
    LET voice_mode == Get(record, "voice_mode", Str("Single"))
        effects    == Get(record, "effects", EmptyDict)
    IN  { voice_mode,
          Get(Get(record, "scale", EmptyDict), "key", Str("C")),
          Get(Get(effects, "delay", EmptyDict), "type", Str("StereoDelay")),
          Get(Get(effects, "mod_fx", EmptyDict), "type", Str("Cho/Flg")),
          Get(Get(record, "arpeggiator", EmptyDict), "type", Str("Up")) }
        \cup TimbreLookups(Get(record, "timbre1", EmptyDict))
        \cup (IF IsDual(voice_mode)
              THEN TimbreLookups(Get(record, "timbre2", EmptyDict)) ELSE {})

\* raised: a ValueError left the function and no bytes were returned
build_patch_bytes(record) ==
    LET data == EncodeTimbres(EncodeGlobals(EncodeName(SeedData(record), record), record), record)
    IN  IF \/ \E i \in 0..(PATCH_SIZE - 1) : data[i] = Raised
           \/ \E value \in LookupValues(record) : _lookup(<<>>, value, 0).raised
        THEN [raised |-> TRUE, data |-> <<>>]
        ELSE [raised |-> FALSE, data |-> data]

-----------------------------------------------------------------------------
(* Inputs of the patch codec *)

\* offsets (timbre-relative) of the offset-64 cells that build writes
SignedCells == {13, 14, 22, 23, 24, 26, 28, 29, 45, 47, 49, 51}

\* "INIT" followed by spaces
TemplateName == <<73, 78, 73, 84, 32, 32, 32, 32, 32, 32, 32, 32>>

\* a capture with a plain name, centred signed fields, the amp byte of a
\* Single program and arbitrary bytes everywhere else
TemplatePatch ==
    [i \in 0..(PATCH_SIZE - 1) |->
        CASE i < 12 -> TemplateName[i + 1]
          [] i = 16 -> 64
          [] i = 19 -> 5
          [] i = 32 -> 129
          [] i - TIMBRE1_OFFSET \in SignedCells -> 64 + (i % 7)
          [] i - TIMBRE2_OFFSET \in SignedCells -> 64 - (i % 5)
          [] i \in {TIMBRE1_OFFSET + 27, TIMBRE2_OFFSET + 27} -> 64
          [] OTHER -> (i * 37 + 11) % 256]

\* <<offset, byte>>: the bytes in which a capture may differ from the template
Pokes ==
    { <<0, 128>>, <<11, 9>>, <<12, 171>>,
      <<16, 16>>, <<16, 32>>, <<16, 48>>, <<16, 223>>,
      <<17, 197>>, <<19, 149>>, <<22, 5>>, <<32, 254>>, <<33, 247>>,
      <<TIMBRE1_OFFSET + 7, 253>>, <<TIMBRE1_OFFSET + 10, 197>>,
      <<TIMBRE1_OFFSET + 12, 255>>,
      <<TIMBRE1_OFFSET + 13, 0>>, <<TIMBRE1_OFFSET + 13, 88>>,
      <<TIMBRE1_OFFSET + 13, 89>>,
      <<TIMBRE1_OFFSET + 27, 1>>, <<TIMBRE1_OFFSET + 27, 190>>,
      <<TIMBRE1_OFFSET + 40, 126>>, <<TIMBRE1_OFFSET + 44, 154>>,
      <<TIMBRE1_OFFSET + 45, 192>>,
      <<TIMBRE2_OFFSET + 13, 94>>, <<TIMBRE2_OFFSET + 27, 1>>,
      <<TIMBRE2_OFFSET + 60, 85>>, <<253, 153>> }

\* the template with at most n bytes replaced
RECURSIVE PokedPatches(_)
PokedPatches(n) ==
    IF n = 0 THEN {TemplatePatch}
    ELSE LET prev == PokedPatches(n - 1)
         IN  prev \cup {[r EXCEPT ![p[1]] = p[2]] : r \in prev, p \in Pokes}

\* the record of tests/ms2000/test_encoding.py: no system.base_patch, no scale,
\* no wave_value / dwgs_wave keys
EdgeTimbre ==
    [ voice  |-> [ portamento_time |-> 3 ],
      osc1   |-> [ wave |-> Str("Saw"), ctrl1 |-> 10, ctrl2 |-> 20 ],
      osc2   |-> [ wave |-> Str("Square"), semitone |-> 12, tune |-> -5,
                   modulation |-> Str("Off") ],
      mixer  |-> [ osc1_level |-> 90, osc2_level |-> 80, noise_level |-> 10 ],
      filter |-> [ type |-> Str("12dB LPF"), cutoff |-> 70, resonance |-> 20,
                   eg1_intensity |-> -21, velocity_sense |-> -9, kbd_track |-> 18 ],
      amp    |-> [ level |-> 100, panpot |-> 0, switch |-> "EG2", distortion |-> FALSE,
                   velocity_sense |-> -17, kbd_track |-> 11 ],
      eg1    |-> [ attack |-> 5, decay |-> 40, sustain |-> 90, release |-> 60 ],
      eg2    |-> [ attack |-> 3, decay |-> 50, sustain |-> 100, release |-> 70 ],
      lfo1   |-> [ wave |-> Str("Triangle"), frequency |-> 30, tempo_sync |-> FALSE,
                   tempo_value |-> 0 ],
      lfo2   |-> [ wave |-> Str("Sine"), frequency |-> 45, tempo_sync |-> FALSE,
                   tempo_value |-> 0 ],
      patch  |-> [ patch1 |-> [ source |-> Str("EG1"), destination |-> Str("PITCH"), intensity |-> -63 ],
                   patch2 |-> [ source |-> Str("EG2"), destination |-> Str("OSC2PITCH"), intensity |-> 0 ],
                   patch3 |-> [ source |-> Str("LFO1"), destination |-> Str("CUTOFF"), intensity |-> 15 ],
                   patch4 |-> [ source |-> Str("MIDI1"), destination |-> Str("RESONANCE"), intensity |-> 63 ] ] ]

\* "Unit Test Edge"
EdgeName == <<85, 110, 105, 116, 32, 84, 101, 115, 116, 32, 69, 100, 103, 101>>

EdgeCasePatch ==
    [ name         |-> EdgeName,
      voice_mode   |-> Str("Single"),
      timbre_voice |-> 1,
      effects      |-> [ delay  |-> [ type |-> Str("L/R Delay"), sync |-> FALSE, time |-> 50,
                                      depth |-> 64, timebase |-> 0 ],
                         mod_fx |-> [ type |-> Str("Cho/Flg"), speed |-> 20, depth |-> 30 ],
                         eq     |-> [ hi_freq |-> 20, hi_gain |-> 64, low_freq |-> 15,
                                      low_gain |-> 61 ] ],
      arpeggiator  |-> [ on |-> FALSE, tempo |-> 120, latch |-> FALSE, target |-> 0,
                         keysync |-> FALSE, type |-> Str("Up"), range |-> 1 ],
      timbre1      |-> EdgeTimbre ]

\* d[key] = value on a dict
Put(d, key, value) == [k \in (DOMAIN d) \cup {key} |-> IF k = key THEN value ELSE d[k]]

Put2(d, k1, k2, value) == Put(d, k1, Put(Get(d, k1, EmptyDict), k2, value))

Put3(d, k1, k2, k3, value) == Put(d, k1, Put2(Get(d, k1, EmptyDict), k2, k3, value))

Put4(d, k1, k2, k3, k4, value) == Put(d, k1, Put3(Get(d, k1, EmptyDict), k2, k3, k4, value))

\* del d[key]
Del(d, key) == [k \in (DOMAIN d) \ {key} |-> d[k]]

\* "Bass", a name with a non-ASCII character, a name of 13 characters
NewNames == { <<66, 97, 115, 115>>, <<66, 228, 115, 115>>,
              <<65, 66, 67, 68, 69, 70, 71, 72, 73, 74, 75, 76, 77>> }

\* the hand edits of a JSON record that the model tries, as <<field, value>>
Edits ==
       {<<"voice_mode", v>> : v \in {Str("Single"), Str("Split"), Str("Layer"), Str("Vocoder"),
                                     Int_(0), Int_(1), NumStr(2)}}
  \cup {<<"name", v>> : v \in NewNames}
  \cup {<<"t1.amp.switch", v>> : v \in {"GATE", "EG2", "gate"}}
  \cup {<<"t1.amp.distortion", v>> : v \in BOOLEAN}
  \cup {<<"t1.osc2.semitone", v>> : v \in {-25, 24}}
  \cup {<<"t1.filter.eg1_intensity", v>> : v \in {-64, 64}}
  \cup {<<"t1.patch.patch1.intensity", v>> : v \in {-63, -65}}
  \cup {<<"t1.lfo1.tempo_sync", v>> : v \in {TRUE}}
  \cup {<<"t2.amp.switch", v>> : v \in {"GATE"}}
  \cup {<<"delay.time", v>> : v \in {300}}
  \cup {<<"arp.range", v>> : v \in {0, 17}}
  \cup {<<"timbre2", v>> : v \in {"copy of timbre1", "delete"}}
  \cup {<<"timbre1", v>> : v \in {"empty"}}
  \cup {<<"system", v>> : v \in {"delete"}}

ApplyEdit(r, e) ==
    LET f == e[1]
        v == e[2]
    IN  CASE f = "voice_mode" -> Put(r, "voice_mode", v)
          [] f = "name" -> Put(r, "name", v)
          [] f = "t1.amp.switch" -> Put3(r, "timbre1", "amp", "switch", v)
          [] f = "t1.amp.distortion" -> Put3(r, "timbre1", "amp", "distortion", v)
          [] f = "t1.osc2.semitone" -> Put3(r, "timbre1", "osc2", "semitone", v)
          [] f = "t1.filter.eg1_intensity" -> Put3(r, "timbre1", "filter", "eg1_intensity", v)
          [] f = "t1.patch.patch1.intensity" -> Put4(r, "timbre1", "patch", "patch1", "intensity", v)
          [] f = "t1.lfo1.tempo_sync" -> Put3(r, "timbre1", "lfo1", "tempo_sync", v)
          [] f = "t2.amp.switch" -> Put3(r, "timbre2", "amp", "switch", v)
          [] f = "delay.time" -> Put3(r, "effects", "delay", "time", v)
          [] f = "arp.range" -> Put2(r, "arpeggiator", "range", v)
          [] f = "timbre2" -> IF v = "delete" THEN Del(r, "timbre2")
                              ELSE Put(r, "timbre2", Get(r, "timbre1", EmptyDict))
          [] f = "timbre1" -> Put(r, "timbre1", EmptyDict)
          [] f = "system" -> Del(r, "system")

-----------------------------------------------------------------------------
(* The patch codec as a tool run: decode a capture to JSON, edit the JSON, *)
(* build it, decode the result again.                                      *)

NotBuilt == [raised |-> FALSE, data |-> <<>>]

IdlePack  == packIn = <<>> /\ packVariant = "v1" /\ packEnc = <<>> /\ packDec = <<>>
IdleCodec == sval = 0 /\ srange = <<-64, 63>> /\ sbyte = [raised |-> FALSE, value |-> 0] /\ sback = 0
IdlePatch == raw = ZeroPatch /\ jrecord = EmptyDict /\ built = NotBuilt
             /\ jrecord2 = EmptyDict /\ changes = 0
IdleBank  == file = <<>> /\ bank = <<>> /\ records = <<>> /\ rebuilt = <<>>
IdleSlot  == slotIndex = 0 /\ slotLabel = <<>>
IdleRepair == repFile = <<>> /\ repZeros = 0 /\ repPad = TRUE /\ repOut = <<>>
              /\ repAgain = <<>>
IdleLookup == lookToken = None /\ lookTable = <<>> /\ lookDefault = 0
              /\ lookOut = <<>>
IdleRoland == rolParts = <<>> /\ rolFile = <<>> /\ rolDecoded = <<>>
              /\ rolLoaded = <<>>
IdleJp    == jpIn = 0 /\ jpOut = 0
IdleMask  == maskIn = <<>> /\ maskOut = <<>>
IdleCopy  == copyIn = <<>> /\ copyOut = <<>>
IdleMore  == IdleRoland /\ IdleJp /\ IdleMask /\ IdleCopy
IdleTools == IdleSlot /\ IdleRepair /\ IdleLookup /\ IdleMore

\* a capture: the empty program, or the template with some bytes replaced
InitCapture ==
    /\ pc = "raw"
    /\ \/ raw = ZeroPatch /\ changes = 0
       \/ \E n \in 0..MaxChanges : raw \in PokedPatches(n) /\ changes = n
    /\ jrecord = EmptyDict

InitAuthored ==
    /\ pc = "record"
    /\ raw = ZeroPatch
    /\ changes = 0
    /\ jrecord = EdgeCasePatch

Init ==
    /\ InitCapture \/ InitAuthored
    /\ built = NotBuilt
    /\ jrecord2 = EmptyDict
    /\ IdlePack /\ IdleCodec /\ IdleBank /\ IdleTools

\* record = extract_full_parameters(MS2000Patch(raw))
Extract ==
    /\ pc = "raw"
    /\ jrecord' = extract_full_parameters(MS2000Patch(raw))
    /\ pc' = "record"
    /\ UNCHANGED <<raw, built, jrecord2, changes, packVars, codecVars, bankVars,
                 toolVars>>

\* the JSON is edited by hand before it is built
Edit ==
    /\ pc = "record"
    /\ changes < MaxChanges
    /\ \E e \in Edits :
          /\ ApplyEdit(jrecord, e) # jrecord
          /\ jrecord' = ApplyEdit(jrecord, e)
    /\ changes' = changes + 1
    /\ UNCHANGED <<pc, raw, built, jrecord2, packVars, codecVars, bankVars,
                 toolVars>>

\* built = build_patch_bytes(record); the record is left as it was
Build ==
    /\ pc = "record"
    /\ built' = build_patch_bytes(jrecord)
    /\ pc' = "built"
    /\ UNCHANGED <<raw, jrecord, jrecord2, changes, packVars, codecVars, bankVars,
                 toolVars>>

\* extract_full_parameters(MS2000Patch(built))
Reextract ==
    /\ pc = "built"
    /\ ~built.raised
    /\ jrecord2' = extract_full_parameters(MS2000Patch(built.data))
    /\ pc' = "reparsed"
    /\ UNCHANGED <<raw, jrecord, built, changes, packVars, codecVars, bankVars,
                 toolVars>>

Next == Extract \/ Edit \/ Build \/ Reextract

Spec == Init /\ [][Next]_vars

-----------------------------------------------------------------------------
(* Properties of the patch codec *)

Names(options) == {Str(options[i]) : i \in 1..Len(options)}

HasBase(r) == "system" \in DOMAIN r /\ "base_patch" \in DOMAIN r.system
              /\ ListLen(r.system.base_patch) = PATCH_SIZE

Built == pc \in {"built", "reparsed"}

\* the record is the decoded capture, as extract_full_parameters returned it
Unedited == jrecord = extract_full_parameters(MS2000Patch(raw))

\* C1: for every 254-byte buffer r, build_patch_bytes(extract_full_parameters(
\* MS2000Patch(r))) returns exactly r.
C1_ByteExactRoundTrip ==
    (Built /\ Unedited) => (~built.raised /\ built.data = raw)

\* every key of a whose value is compared has the same value in b
SameOn(a, b, keys) ==
    \A k \in keys \cap DOMAIN a : k \in DOMAIN b /\ b[k] = a[k]

TimbreGroupKeys ==
    [ voice  |-> {"portamento_time"},
      osc1   |-> {"wave", "ctrl1", "ctrl2", "dwgs_wave"},
      osc2   |-> {"wave", "modulation", "semitone", "tune"},
      mixer  |-> {"osc1_level", "osc2_level", "noise_level"},
      filter |-> {"type", "cutoff", "resonance", "eg1_intensity", "velocity_sense", "kbd_track"},
      amp    |-> {"level", "panpot", "switch", "distortion", "kbd_track", "velocity_sense"},
      eg1    |-> {"attack", "decay", "sustain", "release"},
      eg2    |-> {"attack", "decay", "sustain", "release"},
      lfo1   |-> {"wave", "frequency", "tempo_sync"},
      lfo2   |-> {"wave", "frequency", "tempo_sync"} ]

RouteKeys == {"patch1", "patch2", "patch3", "patch4"}

\* the decoded timbre b gives every modeled field of timbre a the value a has
SameTimbre(a, b) ==
    /\ \A g \in (DOMAIN TimbreGroupKeys) \cap DOMAIN a : SameOn(a[g], b[g], TimbreGroupKeys[g])
    /\ "patch" \in DOMAIN a =>
          \A p \in RouteKeys \cap DOMAIN a.patch :
              SameOn(a.patch[p], b.patch[p], {"source", "destination", "intensity"})

\* the decoded record b gives every modeled field of record a the value a has
SameModeled(a, b) ==
    /\ SameOn(a, b, {"name", "voice_mode", "timbre_voice"})
    /\ "scale" \in DOMAIN a => SameOn(a.scale, b.scale, {"key", "type", "split_point"})
    /\ "effects" \in DOMAIN a =>
          /\ "delay" \in DOMAIN a.effects =>
                SameOn(a.effects.delay, b.effects.delay, {"type", "sync", "time", "depth", "timebase"})
          /\ "mod_fx" \in DOMAIN a.effects =>
                SameOn(a.effects.mod_fx, b.effects.mod_fx, {"type", "speed", "depth"})
          /\ "eq" \in DOMAIN a.effects =>
                SameOn(a.effects.eq, b.effects.eq, {"hi_freq", "hi_gain", "low_freq", "low_gain"})
    /\ "arpeggiator" \in DOMAIN a =>
          SameOn(a.arpeggiator, b.arpeggiator,
                 {"on", "tempo", "latch", "target", "keysync", "type", "range"})
    /\ "timbre1" \in DOMAIN a => SameTimbre(a.timbre1, b.timbre1)
    /\ "timbre2" \in DOMAIN a => "timbre2" \in DOMAIN b /\ SameTimbre(a.timbre2, b.timbre2)

\* every key of d among keys holds a value of the set
AllIn(d, keys, values) == \A k \in keys \cap DOMAIN d : d[k] \in values

ByteField == 0..127

TimbreInDomain(t) ==
    /\ DOMAIN t # {}
    /\ AllIn(Get(t, "voice", EmptyDict), {"portamento_time"}, ByteField)
    /\ AllIn(Get(t, "osc1", EmptyDict), {"wave"}, Names(OSC1_WAVES))
    /\ AllIn(Get(t, "osc1", EmptyDict), {"ctrl1", "ctrl2"}, ByteField)
    /\ AllIn(Get(t, "osc1", EmptyDict), {"dwgs_wave"}, 1..64)
    /\ AllIn(Get(t, "osc2", EmptyDict), {"wave"}, Names(OSC2_WAVES))
    /\ AllIn(Get(t, "osc2", EmptyDict), {"modulation"}, Names(MOD_SELECT))
    /\ AllIn(Get(t, "osc2", EmptyDict), {"semitone"}, SEMITONE_MIN..SEMITONE_MAX)
    /\ AllIn(Get(t, "osc2", EmptyDict), {"tune"}, -64..63)
    /\ AllIn(Get(t, "mixer", EmptyDict), {"osc1_level", "osc2_level", "noise_level"}, ByteField)
    /\ AllIn(Get(t, "filter", EmptyDict), {"type"}, Names(FILTER_TYPES))
    /\ AllIn(Get(t, "filter", EmptyDict), {"cutoff", "resonance"}, ByteField)
    /\ AllIn(Get(t, "filter", EmptyDict), {"eg1_intensity", "velocity_sense", "kbd_track"}, -64..63)
    /\ AllIn(Get(t, "amp", EmptyDict), {"level"}, ByteField)
    /\ AllIn(Get(t, "amp", EmptyDict), {"panpot", "velocity_sense", "kbd_track"}, -64..63)
    /\ AllIn(Get(t, "amp", EmptyDict), {"switch"}, {"GATE", "EG2"})
    /\ AllIn(Get(t, "amp", EmptyDict), {"distortion"}, BOOLEAN)
    /\ AllIn(Get(t, "eg1", EmptyDict), {"attack", "decay", "sustain", "release"}, ByteField)
    /\ AllIn(Get(t, "eg2", EmptyDict), {"attack", "decay", "sustain", "release"}, ByteField)
    /\ AllIn(Get(t, "lfo1", EmptyDict), {"wave"}, Names(LFO1_WAVES))
    /\ AllIn(Get(t, "lfo2", EmptyDict), {"wave"}, Names(LFO2_WAVES))
    /\ AllIn(Get(t, "lfo1", EmptyDict), {"frequency", "tempo_value"}, ByteField)
    /\ AllIn(Get(t, "lfo2", EmptyDict), {"frequency", "tempo_value"}, ByteField)
    /\ AllIn(Get(t, "lfo1", EmptyDict), {"tempo_sync"}, BOOLEAN)
    /\ AllIn(Get(t, "lfo2", EmptyDict), {"tempo_sync"}, BOOLEAN)
    /\ \A p \in RouteKeys \cap DOMAIN Get(t, "patch", EmptyDict) :
          /\ AllIn(t.patch[p], {"source"}, Names(PATCH_SOURCE_NAMES))
          /\ AllIn(t.patch[p], {"destination"}, Names(PATCH_DEST_NAMES))
          /\ AllIn(t.patch[p], {"intensity"}, -64..63)

\* a name of at most 12 printable ASCII characters that does not end in a space
NameInDomain(name) ==
    /\ Len(name) <= 12
    /\ \A k \in 1..Len(name) : name[k] \in 32..126
    /\ Len(name) > 0 => name[Len(name)] # 32

\* every modeled field of the record holds an in-domain value
InDomain(r) ==
    /\ "name" \in DOMAIN r => NameInDomain(r.name)
    /\ AllIn(r, {"voice_mode"}, Names(VOICE_MODES))
    /\ AllIn(r, {"timbre_voice"}, 0..3)
    /\ AllIn(Get(r, "scale", EmptyDict), {"key"}, Names(SCALE_KEYS))
    /\ AllIn(Get(r, "scale", EmptyDict), {"type"}, 0..15)
    /\ AllIn(Get(r, "scale", EmptyDict), {"split_point"}, ByteField)
    /\ LET effects == Get(r, "effects", EmptyDict)
       IN  /\ AllIn(Get(effects, "delay", EmptyDict), {"type"}, Names(DELAY_TYPES))
           /\ AllIn(Get(effects, "delay", EmptyDict), {"sync"}, BOOLEAN)
           /\ AllIn(Get(effects, "delay", EmptyDict), {"time", "depth"}, ByteField)
           /\ AllIn(Get(effects, "delay", EmptyDict), {"timebase"}, 0..15)
           /\ AllIn(Get(effects, "mod_fx", EmptyDict), {"type"}, Names(MOD_TYPES))
           /\ AllIn(Get(effects, "mod_fx", EmptyDict), {"speed", "depth"}, ByteField)
           /\ AllIn(Get(effects, "eq", EmptyDict),
                    {"hi_freq", "hi_gain", "low_freq", "low_gain"}, ByteField)
    /\ LET arp == Get(r, "arpeggiator", EmptyDict)
       IN  /\ AllIn(arp, {"on", "latch", "keysync"}, BOOLEAN)
           /\ AllIn(arp, {"tempo"}, 0..65535)
           /\ AllIn(arp, {"target"}, 0..3)
           /\ AllIn(arp, {"type"}, Names(ARP_TYPES))
           /\ AllIn(arp, {"range"}, 1..16)
    /\ "timbre1" \in DOMAIN r /\ TimbreInDomain(r.timbre1)
    /\ "timbre2" \in DOMAIN r =>
          IsDual(Get(r, "voice_mode", Str("Single"))) /\ TimbreInDomain(r.timbre2)

\* C2: for every record whose modeled fields all hold in-domain values,
\* extract_full_parameters(MS2000Patch(build_patch_bytes(record))) returns the
\* record's value for every modeled field, amp.switch and amp.distortion included.
C2_SemanticRoundTrip ==
    (pc = "reparsed" /\ InDomain(jrecord)) => SameModeled(jrecord, jrecord2)

\* C6: every value the decoder produces for an offset-64 field is accepted by
\* the encoder for that field, so building a decoded capture raises no range error.
C6_DecodedRecordBuilds ==
    (Built /\ Unedited) => ~built.raised

\* offsets inside a timbre block that encode_timbre never assigns
TimbreUnassigned(offset, size) ==
    {offset + k : k \in (0..4) \cup {6, 11, 15} \cup (52..(size - 1))}

\* offsets that build_patch_bytes never assigns
UnassignedOffsets ==
    (12..15) \cup (34..37)
        \cup TimbreUnassigned(TIMBRE1_OFFSET, TIMBRE2_OFFSET - TIMBRE1_OFFSET)
        \cup TimbreUnassigned(TIMBRE2_OFFSET, PATCH_SIZE - TIMBRE2_OFFSET)

\* C7: for every record with a 254-byte system.base_patch b, the output of
\* build_patch_bytes equals b at every offset no modeled field is assigned to,
\* and b, still held by the record after the build, is the decoded capture.
C7_UnmodeledBytesSurvive ==
    (Built /\ ~built.raised /\ HasBase(jrecord)) =>
        /\ \A i \in UnassignedOffsets : built.data[i] = jrecord.system.base_patch[i]
        /\ jrecord.system.base_patch = raw

\* a build from base bytes that overlaid fields and kept a poked unmodeled byte
C7_Witness ==
    /\ pc = "built" /\ ~built.raised /\ HasBase(jrecord)
    /\ built.data # jrecord.system.base_patch
    /\ jrecord.system.base_patch[12] = 171
    /\ built.data[12] = 171
    /\ built.data[253] # 0

\* <<offset, mask of the bits that belong to no modeled sub-field>>
TimbreSpareBits(offset) ==
    { <<offset + 7, 248>>, <<offset + 12, 204>>, <<offset + 19, 252>>,
      <<offset + 27, 190>>, <<offset + 38, 252>>, <<offset + 41, 252>> }

SpareBits ==
    { <<16, 15>>, <<19, 112>>, <<32, 14>> }
        \cup TimbreSpareBits(TIMBRE1_OFFSET) \cup TimbreSpareBits(TIMBRE2_OFFSET)

\* C8: in a build seeded from base bytes b, every byte that packs sub-fields
\* keeps every bit that belongs to no modeled sub-field equal to the bit of b.
C8_SpareBitsKept ==
    (Built /\ ~built.raised /\ HasBase(jrecord)) =>
        \A sb \in SpareBits :
            BitAnd(built.data[sb[1]], sb[2]) = BitAnd(jrecord.system.base_patch[sb[1]], sb[2])

\* the buffer before the timbres are encoded, and with both timbres encoded
BeforeTimbres(r) == EncodeGlobals(EncodeName(SeedData(r), r), r)
BothTimbres(r) == EncodeTimbresAlways(BeforeTimbres(r), r)

Timbre2Range == TIMBRE2_OFFSET..(PATCH_SIZE - 1)

\* C9: build_patch_bytes overlays the second timbre block exactly when the voice
\* mode it encodes into byte 16 bits 4-5 is Split or Layer, whichever form the
\* record gives the voice mode in; in every other mode bytes 134..253 equal the
\* seed bytes.  extract_full_parameters emits timbre2 exactly for Split and Layer.
C9_DualTimbreLayout ==
    /\ (Built /\ ~built.raised) =>
          IF (built.data[16] \div 16) % 4 \in {1, 2}
          THEN \A i \in Timbre2Range : built.data[i] = BothTimbres(jrecord)[i]
          ELSE \A i \in Timbre2Range : built.data[i] = SeedData(jrecord)[i]
    /\ (pc = "record" /\ Unedited) =>
          ("timbre2" \in DOMAIN jrecord <=> (raw[16] \div 16) % 4 \in {1, 2})

\* the timbre blocks that the build encoded
EncodedTimbres(r) ==
    {o \in {TIMBRE1_OFFSET} : DOMAIN Get(r, "timbre1", EmptyDict) # {}}
        \cup {o \in {TIMBRE2_OFFSET} : IsDual(Get(r, "voice_mode", Str("Single")))
                                        /\ DOMAIN Get(r, "timbre2", EmptyDict) # {}}

\* C10: for Single and Split build_patch_bytes always sets bit 6 of the timbre
\* amp byte (+27); for Layer and Vocoder bit 6 of that byte is preserved from
\* the base bytes.
C10_MagicBit ==
    (Built /\ ~built.raised /\ HasBase(jrecord)) =>
        \A o \in EncodedTimbres(jrecord) :
            IF (built.data[16] \div 16) % 4 \in {0, 1}
            THEN Bit(built.data[o + 27], 6) = 1
            ELSE Bit(built.data[o + 27], 6) = Bit(jrecord.system.base_patch[o + 27], 6)

\* the record has a name with a character outside ASCII
NonAsciiName(r) ==
    "name" \in DOMAIN r /\ \E k \in 1..Len(r.name) : r.name[k] >= 128

\* C11: build_patch_bytes on a record whose name contains a character outside
\* ASCII fails and returns no bytes; an ASCII name of at most 12 characters is
\* written left-justified into bytes 0..11 and padded with spaces.
C11_NonAsciiNameRejected ==
    /\ (Built /\ NonAsciiName(jrecord)) => built.raised
    /\ (Built /\ ~built.raised /\ "name" \in DOMAIN jrecord
            /\ ~NonAsciiName(jrecord) /\ Len(jrecord.name) <= 12) =>
          \A i \in 0..11 :
              built.data[i] = IF i < Len(jrecord.name) THEN jrecord.name[i + 1] ELSE 32

\* the values of the record that build_patch_bytes passes to _clamp_byte for
\* the global bytes 18..29
ClampedGlobals(r) ==
    LET scale   == Get(r, "scale", EmptyDict)
        effects == Get(r, "effects", EmptyDict)
        delay   == Get(effects, "delay", EmptyDict)
        mod_fx  == Get(effects, "mod_fx", EmptyDict)
        eq      == Get(effects, "eq", EmptyDict)
    IN  {scale[k] : k \in {"split_point"} \cap DOMAIN scale}
            \cup {delay[k] : k \in {"time", "depth"} \cap DOMAIN delay}
            \cup {mod_fx[k] : k \in {"speed", "depth"} \cap DOMAIN mod_fx}
            \cup {eq[k] : k \in {"hi_freq", "hi_gain", "low_freq", "low_gain"} \cap DOMAIN eq}

\* a scalar field of the record is outside its declared domain
OutOfDomainScalar(r) ==
    \/ \E v \in ClampedGlobals(r) : v < 0 \/ v > 255
    \/ Get(Get(r, "arpeggiator", EmptyDict), "range", 1) \notin 1..16
    \/ Len(Get(r, "name", <<>>)) > 12

\* C12: for every record in which a scalar field is outside its declared
\* domain (a byte field below 0 or above its maximum, an arpeggiator range
\* outside 1..16, a name longer than 12 characters) build_patch_bytes raises
\* an error instead of writing a clamped or truncated value.
C12_NoSilentClamp ==
    (Built /\ OutOfDomainScalar(jrecord)) => built.raised

-----------------------------------------------------------------------------
(* The BitPacker as a tool run: encode a buffer, decode the result *)

\* a byte without and two bytes with low bits, one of them with bit 7
PackBytes == {0, 85, 170}

PackInputs == UNION {[1..n -> PackBytes] : n \in 0..MaxPackLen}

InitPack ==
    /\ pc = "pack"
    /\ packIn \in PackInputs
    /\ packVariant \in {"v1", "v2"}
    /\ packEnc = <<>> /\ packDec = <<>>
    /\ IdleCodec /\ IdlePatch /\ IdleBank /\ IdleTools

Encode7 ==
    /\ pc = "pack"
    /\ packEnc' = encode_korg_7bit(packIn, packVariant)
    /\ pc' = "packed"
    /\ UNCHANGED <<packIn, packVariant, packDec, codecVars, patchVars, bankVars,
                 toolVars>>

Decode7 ==
    /\ pc = "packed"
    /\ packDec' = decode_korg_7bit(packEnc)
    /\ pc' = "unpacked"
    /\ UNCHANGED <<packIn, packVariant, packEnc, codecVars, patchVars, bankVars,
                 toolVars>>

NextPack == Encode7 \/ Decode7

SpecPack == InitPack /\ [][NextPack]_vars

\* C4: for every byte buffer b of any length, the empty one and lengths that are
\* not a multiple of 7 included, decode_korg_7bit(encode_korg_7bit(b, "v1")) = b.
C4_BitPackerInverse ==
    (pc = "unpacked" /\ packVariant = "v1") => packDec = packIn

\* a buffer whose final group is one byte with bit 7 set came back unchanged
C4_Witness ==
    /\ pc = "unpacked" /\ packVariant = "v1"
    /\ Len(packIn) = 8 /\ packIn[8] = 170 /\ packIn[1] = 85
    /\ Len(packEnc) = 10
    /\ packDec = packIn

-----------------------------------------------------------------------------
(* The offset-64 helpers as a tool run *)

SignedRanges == {<<-64, 63>>, <<SEMITONE_MIN, SEMITONE_MAX>>}

InitCodec ==
    /\ pc = "signed"
    /\ sval \in (-MaxSigned)..MaxSigned
    /\ srange \in SignedRanges
    /\ sbyte = [raised |-> FALSE, value |-> 0] /\ sback = 0
    /\ IdlePack /\ IdlePatch /\ IdleBank /\ IdleTools

ToOffset64 ==
    /\ pc = "signed"
    /\ sbyte' = _to_offset64(sval, srange[1], srange[2])
    /\ pc' = "stored"
    /\ UNCHANGED <<sval, srange, sback, packVars, patchVars, bankVars,
                 toolVars>>

FromOffset64 ==
    /\ pc = "stored"
    /\ ~sbyte.raised
    /\ sback' = _from_offset64(sbyte.value)
    /\ pc' = "loaded64"
    /\ UNCHANGED <<sval, srange, sbyte, packVars, patchVars, bankVars,
                 toolVars>>

NextCodec == ToOffset64 \/ FromOffset64

SpecCodec == InitCodec /\ [][NextCodec]_vars

\* C5: for min <= v <= max (default -64..63) _to_offset64 returns v + 64 and
\* _from_offset64 of it is v; for every v outside [min, max] _to_offset64 raises
\* a range error and returns no byte.
C5_Offset64Bijection ==
    /\ pc \in {"stored", "loaded64"} =>
          IF srange[1] <= sval /\ sval <= srange[2]
          THEN ~sbyte.raised /\ sbyte.value = sval + 64
          ELSE sbyte.raised
    /\ pc = "loaded64" => sback = sval

\* the lowest value of the default range went through both helpers
C5_Witness ==
    /\ pc = "loaded64" /\ srange = <<-64, 63>>
    /\ sval = -64 /\ sbyte.value = 0 /\ sback = -64

-----------------------------------------------------------------------------
(* BankContainer: slot_name, load_bank, encode_bank_from_json and the      *)
(* round trip of scripts/roundtrip_test.py                                 *)

\* a table in which two banks share a letter
BankLettersRepeated == <<"A", "B", "C", "D", "E", "F", "G", "G">>

BankLetters == <<"A", "B", "C", "D", "E", "F", "G", "H">>

\* f"{bank}{num:02d}" is kept as the letter and the two decimal digits
slot_name(index) ==
    IF ~(1 <= index /\ index <= 128)
    THEN [raised |-> TRUE, bank |-> "", digits |-> <<>>]
    ELSE LET zero_based == index - 1
             num        == (zero_based % 16) + 1
         IN  [raised |-> FALSE,
              bank   |-> BankLetters[(zero_based \div 16) + 1],
              digits |-> <<num \div 10, num % 10>>]

NoHeader == [manufacturer |-> 0, midi_channel |-> 0, device |-> 0, function |-> 0]

Rejected(message) ==
    [raised |-> TRUE, error |-> message, header |-> NoHeader, patches |-> <<>>]

\* a header that keeps byte 2 whole as the channel
SysexHeaderWholeByte(data) ==
    [manufacturer |-> data[2], midi_channel |-> data[3], device |-> data[4],
     function |-> data[5]]

\* SysexHeader(manufacturer=data[1], midi_channel=data[2] & 0x0F, ...)
SysexHeader(data) ==
    [manufacturer |-> data[2], midi_channel |-> data[3] % 16, device |-> data[4],
     function |-> data[5]]

\* a slicer that returns the first chunk for every patch
ChunkFirst(decoded_stream, i) == [k \in 0..(PATCH_SIZE - 1) |-> decoded_stream[k + 1]]

\* decoded_stream[i : i + PATCH_SIZE] of a full chunk, as a buffer
Chunk(decoded_stream, i) == [k \in 0..(PATCH_SIZE - 1) |-> decoded_stream[i + k + 1]]

\* data is the content of the file
load_bank(data) ==
    IF Len(data) < 6 THEN Rejected("File too small to contain a valid SysEx header")
    ELSE IF data[1] # 240 THEN Rejected("Missing SysEx start byte (F0)")
    ELSE IF data[2] # 66 THEN Rejected("Not a Korg SysEx file (manufacturer ID)")
    ELSE IF data[4] # 88 THEN Rejected("Not an MS2000 SysEx file (device ID)")
    ELSE IF data[Len(data)] # 247 THEN Rejected("SysEx message missing terminating F7 byte")
    ELSE LET encoded_stream == SubSeq(data, 6, Len(data) - 1)
             decoded_stream == decode_korg_7bit(encoded_stream)
             count          == Len(decoded_stream) \div PATCH_SIZE
         IN  [raised  |-> FALSE,
              error   |-> "",
              header  |-> SysexHeader(data),
              patches |-> [n \in 1..count |->
                              MS2000Patch(Chunk(decoded_stream, (n - 1) * PATCH_SIZE))]]

\* bytes(buffer) of a 0-based buffer as a stream
AsStream(buffer) == [k \in 1..ListLen(buffer) |-> buffer[k - 1]]

\* b"".join(decoded_chunks)
RECURSIVE Join(_)
Join(chunks) ==
    IF chunks = <<>> THEN <<>> ELSE AsStream(Head(chunks)) \o Join(Tail(chunks))

encode_bank_from_json(recs, midi_channel, function) ==
    IF ~(0 <= midi_channel /\ midi_channel <= 15)
    THEN [raised |-> TRUE, data |-> <<>>]
    ELSE LET header         == <<240, 66, BitOr(48, midi_channel), 88, function>>
             decoded_chunks == [n \in 1..Len(recs) |-> build_patch_bytes(recs[n])]
         IN  IF \E n \in 1..Len(recs) : decoded_chunks[n].raised
             THEN [raised |-> TRUE, data |-> <<>>]
             ELSE LET decoded_stream == Join([n \in 1..Len(recs) |-> decoded_chunks[n].data])
                      encoded_stream == encode_korg_7bit(decoded_stream, "v1")
                  IN  [raised |-> FALSE, data |-> header \o encoded_stream \o <<247>>]

\* for record in records: patches.append(MS2000Patch(build_patch_bytes(record)))
patches_from_json(recs) ==
    LET raw_bytes == [n \in 1..Len(recs) |-> build_patch_bytes(recs[n])]
    IN  IF \E n \in 1..Len(recs) : raw_bytes[n].raised
        THEN [raised |-> TRUE, patches |-> <<>>]
        ELSE [raised |-> FALSE,
              patches |-> [n \in 1..Len(recs) |-> MS2000Patch(raw_bytes[n].data)]]

\* the record roundtrip_report makes of patch idx (1-based)
ReportRecord(patch, idx) ==
    [index |-> idx, slot |-> slot_name(idx)] @@ extract_full_parameters(patch)

\* the patches a capture may hold
BankPatches ==
    { TemplatePatch, ZeroPatch,
      [TemplatePatch EXCEPT ![16] = 32],
      [TemplatePatch EXCEPT ![19] = 149] }

PatchLists == UNION {[1..n -> BankPatches] : n \in 0..MaxBankPatches}

\* bytes that follow the last whole patch of a payload: none, or a cut patch
PayloadTails == { <<>>, <<73, 204, 5>> }

\* <<channel, function>>: a PROGRAM DATA DUMP (0x4C) on channel 0 and a
\* CURRENT PROGRAM DATA DUMP (0x40) on channel 5
DumpKinds == { <<0, 76>>, <<5, 64>> }

\* the dump of the patches, followed by the tail, in one SysEx message
DumpFile(channel, function, patches, tail) ==
    <<240, 66, 48 + channel, 88, function>>
        \o encode_korg_7bit(Join(patches) \o tail, "v1") \o <<247>>

GoodFiles ==
    {DumpFile(k[1], k[2], ps, tail) : k \in DumpKinds, ps \in PatchLists, tail \in PayloadTails}

\* captures that are cut short, lack the terminator or carry a foreign header
BadFiles ==
    { <<240, 66, 48>>,
      <<240, 66, 48, 88, 76>>,
      <<240, 66, 48, 88, 76, 0>>,
      <<247, 66, 48, 88, 76, 247>>,
      <<240, 65, 48, 88, 76, 247>>,
      <<240, 66, 48, 87, 76, 247>> }

InitBank ==
    /\ pc = "file"
    /\ file \in GoodFiles \cup BadFiles
    /\ bank = <<>> /\ records = <<>> /\ rebuilt = <<>>
    /\ IdlePack /\ IdleCodec /\ IdlePatch /\ IdleTools

\* header, patches = load_bank(syx_path)
LoadBank ==
    /\ pc = "file"
    /\ bank' = load_bank(file)
    /\ pc' = IF load_bank(file).raised THEN "rejected" ELSE "loaded"
    /\ UNCHANGED <<file, records, rebuilt, packVars, codecVars, patchVars,
                 toolVars>>

\* records of roundtrip_report
DecodeBank ==
    /\ pc = "loaded"
    /\ records' = [n \in 1..Len(bank.patches) |-> ReportRecord(bank.patches[n], n)]
    /\ pc' = "records"
    /\ UNCHANGED <<file, bank, rebuilt, packVars, codecVars, patchVars,
                 toolVars>>

\* rebuilt = encode_bank_from_json(records, midi_channel=..., function=...)
EncodeBank ==
    /\ pc = "records"
    /\ rebuilt' = encode_bank_from_json(records, bank.header.midi_channel, bank.header.function)
    /\ pc' = "rebuilt"
    /\ UNCHANGED <<file, bank, records, packVars, codecVars, patchVars,
                 toolVars>>

NextBank == LoadBank \/ DecodeBank \/ EncodeBank

SpecBank == InitBank /\ [][NextBank]_vars

\* C3: for every file that load_bank accepts, decoding every patch and
\* re-encoding with the header's channel and function returns exactly the
\* original file bytes.
C3_BankRoundTrip ==
    pc = "rebuilt" => (~rebuilt.raised /\ rebuilt.data = file)

\* the conditions under which load_bank reads a file
Accepted(data) ==
    /\ Len(data) >= 6
    /\ data[1] = 240 /\ data[2] = 66 /\ data[4] = 88
    /\ data[Len(data)] = 247

Loaded == pc \in {"loaded", "records", "rebuilt"}

\* C13: load_bank returns a header and patches exactly when the file has at
\* least 6 bytes, byte 0 is 0xF0, byte 1 is 0x42, byte 3 is 0x58 and the last
\* byte is 0xF7; otherwise it raises and returns no patches.  The header has
\* midi_channel = low nibble of byte 2 and function = byte 4.
C13_LoadBankValidation ==
    (Loaded \/ pc = "rejected") =>
        /\ bank.raised <=> ~Accepted(file)
        /\ bank.raised <=> (pc = "rejected")
        /\ bank.raised => (bank.patches = <<>> /\ bank.error # "")
        /\ ~bank.raised =>
              /\ bank.header.midi_channel = file[3] % 16
              /\ bank.header.function = file[5]

\* a dump sent on channel 5 was read, with its patch
C13_Witness ==
    /\ pc = "loaded" /\ ~bank.raised
    /\ file[3] = 53 /\ bank.header.midi_channel = 5 /\ bank.header.function = 64
    /\ Len(bank.patches) = 1

\* the bit-unpacked payload of an accepted file
Payload(data) == decode_korg_7bit(SubSeq(data, 6, Len(data) - 1))

\* C14: for an accepted file whose bit-unpacked payload has length L,
\* load_bank returns exactly L div 254 patches, patch i (1-based) has raw_data
\* equal to the 254 decoded bytes at 254*(i-1) .. 254*i-1, every raw_data has
\* length 254, and a trailing remainder shorter than 254 bytes is dropped.
C14_PatchSlicing ==
    Loaded =>
        \A decoded \in {Payload(file)} :
            /\ Len(bank.patches) = Len(decoded) \div PATCH_SIZE
            /\ \A n \in 1..Len(bank.patches) :
                  /\ DOMAIN bank.patches[n].raw_data = 0..(PATCH_SIZE - 1)
                  /\ \A k \in 0..(PATCH_SIZE - 1) :
                        bank.patches[n].raw_data[k] = decoded[PATCH_SIZE * (n - 1) + k + 1]

\* two different patches were read from a payload with a cut third patch
C14_Witness ==
    /\ pc = "loaded"
    /\ Len(Payload(file)) = 2 * PATCH_SIZE + 3
    /\ Len(bank.patches) = 2
    /\ bank.patches[1].raw_data # bank.patches[2].raw_data

-----------------------------------------------------------------------------
(* slot_name as a tool run *)

SlotIndexes == (1 - MaxSlotMargin)..(128 + MaxSlotMargin)

InitSlot ==
    /\ pc = "slot"
    /\ slotIndex \in SlotIndexes
    /\ slotLabel = <<>>
    /\ IdlePack /\ IdleCodec /\ IdlePatch /\ IdleBank /\ IdleRepair /\ IdleLookup
    /\ IdleMore

SlotName ==
    /\ pc = "slot"
    /\ slotLabel' = slot_name(slotIndex)
    /\ pc' = "named"
    /\ UNCHANGED <<slotIndex, packVars, codecVars, patchVars, bankVars, repairVars, lookupVars,
                   moreVars>>

NextSlot == SlotName

SpecSlot == InitSlot /\ [][NextSlot]_vars

\* the labels A01 .. H16
AllSlotLabels ==
    {[raised |-> FALSE, bank |-> l, digits |-> <<num \div 10, num % 10>>] :
        l \in {"A", "B", "C", "D", "E", "F", "G", "H"}, num \in 1..16}

\* C15: for every index in 1..128 slot_name returns the letter 'A' + (index-1)
\* div 16 followed by (index-1) mod 16 + 1 as two digits; the mapping is
\* injective and covers all 128 labels A01..H16; for every index outside
\* 1..128 it raises a range error.
C15_SlotNaming ==
    pc = "named" =>
        IF slotIndex \in 1..128
        THEN /\ ~slotLabel.raised
             /\ slotLabel.bank = <<"A", "B", "C", "D", "E", "F", "G", "H">>[((slotIndex - 1) \div 16) + 1]
             /\ slotLabel.digits[1] * 10 + slotLabel.digits[2] = ((slotIndex - 1) % 16) + 1
             /\ slotLabel.digits[1] \in 0..9 /\ slotLabel.digits[2] \in 0..9
             /\ \A j \in 1..128 : slot_name(j) = slotLabel => j = slotIndex
             /\ {slot_name(j) : j \in 1..128} = AllSlotLabels
        ELSE slotLabel.raised

\* index 128 was named H16
C15_Witness ==
    /\ pc = "named" /\ slotIndex = 128
    /\ slotLabel = [raised |-> FALSE, bank |-> "H", digits |-> <<1, 6>>]

-----------------------------------------------------------------------------
(* Repair: repair_sysex *)

\* a test that finds the terminator missing from every file
MissingTerminatorAlways(data) == TRUE

\* if data[-1] != 0xF7
MissingTerminator(data) == data[Len(data)] # 247

\* a count that never falls short of a full bank
ShortBankNever(patch_count) == FALSE

\* if patch_count < 128
ShortBank(patch_count) == patch_count < 128

\* for i in range(len(data) - 1, -1, -1): if data[i] != 0x00: the highest
\* position (1-based here) of a byte other than 0x00; 0 when the loop ends
\* without a break
LastNonZero(data) ==
    CHOOSE i \in 0..Len(data) :
        /\ i = 0 \/ data[i] # 0
        /\ \A j \in (i + 1)..Len(data) : data[j] = 0

\* data = data[: i + 1] at the break
StripZeros(data) ==
    LET i == LastNonZero(data)
    IN  IF i = 0 THEN data ELSE SubSeq(data, 1, i)

NoReport ==
    [raised |-> TRUE, data |-> <<>>, changes |-> <<>>, counted |-> FALSE,
     patch_count |-> 0, warning |-> FALSE]

\* data is what out_path.write_bytes received; counted says whether the
\* report has a "patch_count" key, warning whether it has a "warning" key
repair_sysex(input, pad_to_128) ==
    IF Len(input) < 6 \/ input[1] # 240 \/ input[2] # 66 \/ input[4] # 88
    THEN NoReport
    ELSE LET missing == MissingTerminator(input)
             data    == IF missing THEN StripZeros(input) \o <<247>> ELSE input
             counted == data[5] = 76 /\ pad_to_128
         IN  IF counted
             THEN LET encoded_section == SubSeq(data, 6, Len(data) - 1)
                      patch_count == Len(decode_korg_7bit(encoded_section)) \div PATCH_SIZE
                  IN  [raised |-> FALSE, data |-> data,
                       changes |-> IF missing THEN <<"appended_f7">> ELSE <<>>,
                       counted |-> TRUE, patch_count |-> patch_count,
                       warning |-> ShortBank(patch_count)]
             ELSE [raised |-> FALSE, data |-> data,
                   changes |-> IF missing THEN <<"appended_f7">> ELSE <<>>,
                   counted |-> FALSE, patch_count |-> 0, warning |-> FALSE]

Zeros(k) == [i \in 1..k |-> 0]

\* a PROGRAM DATA DUMP and a CURRENT PROGRAM DATA DUMP on channel 0
RepairHeaders == { <<240, 66, 48, 88, 76>>, <<240, 66, 48, 88, 64>> }

\* encoded payloads: none, a cut one, one whose last byte is 0x00, one whole
\* patch, one whole patch of zero bytes
RepairBodies ==
    { <<>>, <<0, 1, 2>>, <<0, 5, 0>>,
      encode_korg_7bit(AsStream(TemplatePatch), "v1"),
      encode_korg_7bit(AsStream(ZeroPatch), "v1") }

InitRepair ==
    /\ pc = "damaged"
    /\ repZeros \in 0..MaxPadding
    /\ \/ \E h \in RepairHeaders, b \in RepairBodies, t \in {<<>>, <<247>>} :
              repFile = h \o b \o t \o Zeros(repZeros)
       \/ repFile \in BadFiles /\ repZeros = 0
    /\ repPad \in BOOLEAN
    /\ repOut = <<>>
    /\ repAgain = <<>>
    /\ IdlePack /\ IdleCodec /\ IdlePatch /\ IdleBank /\ IdleSlot /\ IdleLookup
    /\ IdleMore

\* repair_sysex(path, pad_to_128=...) on the capture
Repair ==
    /\ pc = "damaged"
    /\ \E report \in {repair_sysex(repFile, repPad)} :
          /\ repOut' = report
          /\ pc' = IF report.raised THEN "refused" ELSE "repaired"
    /\ UNCHANGED <<repFile, repZeros, repPad, repAgain, packVars, codecVars,
                   patchVars, bankVars, slotVars, lookupVars, moreVars>>

\* repair_sysex on the file the first run wrote (out_path = input_path)
RepairAgain ==
    /\ pc = "repaired"
    /\ repAgain' = repair_sysex(repOut.data, repPad)
    /\ pc' = "repaired2"
    /\ UNCHANGED <<repFile, repZeros, repPad, repOut, packVars, codecVars,
                   patchVars, bankVars, slotVars, lookupVars, moreVars>>

NextRepair == Repair \/ RepairAgain

SpecRepair == InitRepair /\ [][NextRepair]_vars

Repaired == pc \in {"repaired", "repaired2"}

Unpadded == SubSeq(repFile, 1, Len(repFile) - repZeros)

\* C17: a capture with a valid header whose terminator is missing and whose
\* data is followed by k bytes of 0x00 is written as the input without those
\* k bytes plus one appended 0xF7, every other byte identical.
C17_PaddingRemoved ==
    (Repaired /\ Unpadded[Len(Unpadded)] # 247) =>
        repOut.data = Unpadded \o <<247>>

\* out is a prefix of input, followed by at most one 0xF7
PrefixPlusTerminator(out, input) ==
    LET n == Len(out)
    IN  \/ n <= Len(input) /\ out = SubSeq(input, 1, n)
        \/ /\ n >= 1 /\ n - 1 <= Len(input)
           /\ out[n] = 247
           /\ SubSeq(out, 1, n - 1) = SubSeq(input, 1, n - 1)

\* the whole patches in the payload of a written file
WholePatches(data) ==
    Len(decode_korg_7bit(SubSeq(data, 6, Len(data) - 1))) \div PATCH_SIZE

\* C18 (as stated): for a whole-bank file (function 0x4C) that decodes to
\* fewer than 128 whole patches the report carries a warning, and the bytes
\* written are a prefix of the input followed by at most one 0xF7.
C18_AsStated ==
    (Repaired /\ repFile[5] = 76 /\ WholePatches(repOut.data) < 128) =>
        /\ repOut.warning
        /\ PrefixPlusTerminator(repOut.data, repFile)

\* C18 (amended): the same, the warning only when pad_to_128 is true; the
\* bytes written are a prefix of the input plus at most one 0xF7 in any case.
C18_RefuseToGuess ==
    (Repaired /\ repFile[5] = 76 /\ WholePatches(repOut.data) < 128) =>
        /\ repPad => (repOut.warning /\ repOut.counted
                        /\ repOut.patch_count = WholePatches(repOut.data))
        /\ PrefixPlusTerminator(repOut.data, repFile)

\* a padded bank of one whole patch was repaired with a warning
C18_Witness ==
    /\ pc = "repaired" /\ repPad /\ repFile[5] = 76
    /\ repOut.patch_count = 1 /\ repOut.warning
    /\ repOut.changes = <<"appended_f7">>

-----------------------------------------------------------------------------
(* batches of records *)

Builds(chunk) == ~chunk.raised

\* C19: when one record of a batch given to encode_bank_from_json or
\* patches_from_json has an out-of-range field, only that record is aborted;
\* the other records of the batch are still built and encoded.
C19_RecordIsolation ==
    pc = "rebuilt" =>
        \A chunks \in {[n \in 1..Len(records) |-> build_patch_bytes(records[n])]} :
            ((\E n \in 1..Len(records) : chunks[n].raised)
                /\ (\E n \in 1..Len(records) : ~chunks[n].raised)) =>
                \A good \in {SelectSeq(chunks, Builds)} :
                    /\ ~rebuilt.raised
                    /\ Payload(rebuilt.data)
                          = Join([n \in 1..Len(good) |-> good[n].data])
                    /\ \A made \in {patches_from_json(records)} :
                          /\ ~made.raised
                          /\ made.patches
                                = [n \in 1..Len(good) |-> MS2000Patch(good[n].data)]

-----------------------------------------------------------------------------
(* EnumLookup: _lookup on its own *)

\* pieces of hand-written strings: digits, a digit int() rejects, a blank,
\* the characters _lookup looks for, a table name and another word
LookupAlphabet ==
    {"0", "1", "SUPERSCRIPT TWO", " ", "-", "(", ")", "Saw", "LFO"}

LookupTexts == UNION {[1..n -> LookupAlphabet] : n \in 0..MaxTextLen}

LookupTables == {OSC2_WAVES, LFO2_WAVES}

\* what the decoder writes for index i of a table
DecoderTokens(options, i) ==
    {_map_choice(options, i, "LABEL"), NameOrNumber(options, i)}

LookupInputs(options) ==
    {Int_(n) : n \in (-1)..MaxEnumIndex}
        \cup {None, NumStr(-1)}
        \cup {Text(p) : p \in LookupTexts}
        \cup UNION {DecoderTokens(options, i) : i \in 0..MaxEnumIndex}

InitLookup ==
    /\ pc = "token"
    /\ lookTable \in LookupTables
    /\ lookToken \in LookupInputs(lookTable)
    /\ lookDefault \in {0, 2}
    /\ lookOut = <<>>
    /\ IdlePack /\ IdleCodec /\ IdlePatch /\ IdleBank /\ IdleSlot /\ IdleRepair
    /\ IdleMore

Lookup ==
    /\ pc = "token"
    /\ lookOut' = _lookup(lookTable, lookToken, lookDefault)
    /\ pc' = "looked"
    /\ UNCHANGED <<lookToken, lookTable, lookDefault, packVars, codecVars,
                   patchVars, bankVars, slotVars, repairVars, moreVars>>

NextLookup == Lookup

SpecLookup == InitLookup /\ [][NextLookup]_vars

\* what _lookup returns when it returns: an int unchanged, the value of a
\* numeric string, i for each token the decoder writes for i, the default
\* for None and for a word that is not in the table
LookupResolves ==
    /\ lookToken.t = "int" => lookOut.value = lookToken.n
    /\ lookToken = NumStr(-1) => lookOut.value = -1
    /\ lookToken = Text(<<" ", "1", "0">>) => lookOut.value = 10
    /\ \A i \in 0..MaxEnumIndex :
          lookToken \in DecoderTokens(lookTable, i) => lookOut.value = i
    /\ lookToken \in {None, Text(<<"LFO">>), Text(<<>>), Text(<<"(", ")">>)}
          => lookOut.value = lookDefault

\* C20: _lookup never raises; it returns an integer index unchanged, the
\* integer value of a numeric string, n for a bracketed token 'LABEL(n)', the
\* table position of an exact name and the caller's default for every other
\* input; the token the decoder emits for index i resolves back to i.
C20_TolerantLookup ==
    pc = "looked" => (~lookOut.raised /\ LookupResolves)

-----------------------------------------------------------------------------
(* banks of zero-filled patches *)

\* F0 42 30 58 4C, the packed form of 254 * n zero bytes, F7
ZeroBank(n) == DumpFile(0, 76, [k \in 1..n |-> ZeroPatch], <<>>)

\* C21: the file F0 42 30 58 4C + encode_korg_7bit of 254*N zero bytes + F7
\* is decoded by load_bank to exactly N patches, each with an empty name and
\* with voice_mode "Single", the index-0 entry of the voice-mode table.
C21_ZeroFilledBank ==
    Loaded =>
        \A n \in 1..MaxBankPatches :
            file = ZeroBank(n) =>
                /\ Len(bank.patches) = n
                /\ \A k \in 1..n :
                      /\ bank.patches[k].name = <<>>
                      /\ bank.patches[k].voice_mode = Str(VOICE_MODES[1])

-----------------------------------------------------------------------------
(* Roland JP-8080: jp8080_core *)

\* PATCH_SIZE of jp8080_core
JP_PATCH_SIZE == 248
ROLAND_MANUFACTURER == 65
JP8080_MODEL_ID == <<0, 6>>

\* sum(data[lo..hi]), by halves
RECURSIVE SumRange(_, _, _)
SumRange(data, lo, hi) ==
    IF lo > hi THEN 0
    ELSE IF lo = hi THEN data[lo]
    ELSE LET mid == (lo + hi) \div 2
         IN  SumRange(data, lo, mid) + SumRange(data, mid + 1, hi)

\* a checksum without the final & 0x7F
calculate_checksum_unmasked(data) == 128 - (SumRange(data, 1, Len(data)) % 128)

\* total = sum(data) % 128; return (128 - total) & 0x7F
calculate_checksum(data) == (128 - (SumRange(data, 1, Len(data)) % 128)) % 128

\* (d6 << 21) | (d7 << 14) | (d8 << 7) | d9, by groups of 7 bits
AddressOf(d6, d7, d8, d9) ==
    (d9 % 128)
    + 128 * BitOr(d8 % 128, d9 \div 128)
    + 16384 * BitOr(d7 % 128, d8 \div 128)
    + 2097152 * BitOr(d6 % 128, d7 \div 128)
    + 268435456 * (d6 \div 128)

RolandError ==
    [raised |-> TRUE,
     header |-> [manufacturer |-> 0, device_id |-> 0, model_id |-> <<>>, command |-> 0],
     payload |-> <<>>, address |-> 0]

decode_roland_sysex(data) ==
    IF Len(data) < 12 THEN RolandError
    ELSE IF data[1] # 240 THEN RolandError
    ELSE IF data[2] # ROLAND_MANUFACTURER THEN RolandError
    ELSE IF data[Len(data)] # 247 THEN RolandError
    ELSE IF data[Len(data) - 1] # calculate_checksum(SubSeq(data, 7, Len(data) - 2))
    THEN RolandError
    ELSE [raised  |-> FALSE,
          header  |-> [manufacturer |-> data[2], device_id |-> data[3],
                       model_id |-> <<data[4], data[5]>>, command |-> data[6]],
          payload |-> SubSeq(data, 11, Len(data) - 2),
          address |-> AddressOf(data[7], data[8], data[9], data[10])]

\* the message up to the data; checksum and F7 follow
RolandFrame(addr_bytes, data, device_id, command) ==
    <<240, ROLAND_MANUFACTURER, device_id>> \o JP8080_MODEL_ID \o <<command>>
        \o addr_bytes \o data

encode_roland_sysex(address, data, device_id, command) ==
    LET addr_bytes == <<(address \div 2097152) % 128, (address \div 16384) % 128,
                        (address \div 128) % 128, address % 128>>
    IN  RolandFrame(addr_bytes, data, device_id, command)
            \o <<calculate_checksum(addr_bytes \o data), 247>>

\* if value >= 64: return value - 128
_signed_offset64(value) == IF value >= 64 THEN value - 128 ELSE value

\* if value < 0: return value + 128
_unsigned_from_signed(value) == IF value < 0 THEN value + 128 ELSE value

\* _from_offset64 and _to_offset64 of jp8080_core
jp_from_offset64(value) == _signed_offset64(value)
jp_to_offset64(value) == _unsigned_from_signed(value)

\* JP8080Patch: raw_data and the two signed fields of _parse; data is a
\* sequence of at least JP_PATCH_SIZE bytes
JP8080Patch(data) ==
    [raw_data         |-> SubSeq(data, 1, JP_PATCH_SIZE),
     osc_balance      |-> _signed_offset64(data[24]),
     filter_keyfollow |-> _signed_offset64(data[44])]

NoJpPatch == [raw_data |-> <<>>, osc_balance |-> 0, filter_keyfollow |-> 0]

\* what load_patch_from_sysex makes of a decoded file
LoadDecoded(decoded) ==
    IF decoded.raised \/ Len(decoded.payload) < JP_PATCH_SIZE
    THEN [raised |-> TRUE, header |-> RolandError.header, patch |-> NoJpPatch,
          address |-> 0]
    ELSE [raised |-> FALSE, header |-> decoded.header,
          patch |-> JP8080Patch(decoded.payload), address |-> decoded.address]

load_patch_from_sysex(data) == LoadDecoded(decode_roland_sysex(data))

\* a patch with the centre byte 0x40 at 0x17 (osc balance) and 0x2B (filter
\* key follow), as create_test_patch writes it
JpPatchBytes ==
    [k \in 1..JP_PATCH_SIZE |-> IF k \in {24, 44} THEN 64 ELSE (3 * k) % 128]

\* the first JP_PATCH_SIZE - 9 bytes and the last 9
JpMain == SubSeq(JpPatchBytes, 1, JP_PATCH_SIZE - 9)
JpExt  == SubSeq(JpPatchBytes, JP_PATCH_SIZE - 8, JP_PATCH_SIZE)

\* 0x01004000 (JP-8000 temporary patch), 0x02000000 (user patch), 0
RolandAddresses == {16793600, 33554432, 0}

RolandPayloads ==
    { <<>>, <<0>>, <<127>>, <<1, 2>>, <<64, 64>>, <<200, 56>>, JpPatchBytes, JpMain }

\* check = -1: the checksum byte is left as encode_roland_sysex wrote it
RolandParts ==
    {[address |-> a, main |-> p, second |-> FALSE, check |-> c] :
        a \in RolandAddresses, p \in RolandPayloads, c \in (-1)..255}
    \cup {[address |-> a, main |-> JpMain, second |-> TRUE, check |-> -1] :
        a \in RolandAddresses}

InitRoland ==
    /\ pc = "rol_parts"
    /\ rolParts \in RolandParts
    /\ rolFile = <<>> /\ rolDecoded = <<>> /\ rolLoaded = <<>>
    /\ IdlePack /\ IdleCodec /\ IdlePatch /\ IdleBank
    /\ IdleSlot /\ IdleRepair /\ IdleLookup
    /\ IdleJp /\ IdleMask /\ IdleCopy

\* the message with its checksum byte replaced
WithCheck(msg, c) == [msg EXCEPT ![Len(msg) - 1] = c]

\* encode_roland_sysex(address, main) [+ encode_roland_sysex(address + 0x172, ext)]
WriteRoland ==
    /\ pc = "rol_parts"
    /\ \E first \in {encode_roland_sysex(rolParts.address, rolParts.main, 16, 18)} :
          rolFile' = IF rolParts.second
                     THEN first \o encode_roland_sysex(rolParts.address + 370, JpExt, 16, 18)
                     ELSE IF rolParts.check = -1 THEN first
                     ELSE WithCheck(first, rolParts.check)
    /\ pc' = "rol_file"
    /\ UNCHANGED <<rolParts, rolDecoded, rolLoaded, packVars, codecVars, patchVars,
                   bankVars, slotVars, repairVars, lookupVars, jpVars, maskVars,
                   copyVars>>

DecodeRoland ==
    /\ pc = "rol_file"
    /\ rolDecoded' = decode_roland_sysex(rolFile)
    /\ pc' = "rol_decoded"
    /\ UNCHANGED <<rolParts, rolFile, rolLoaded, packVars, codecVars, patchVars,
                   bankVars, slotVars, repairVars, lookupVars, jpVars, maskVars,
                   copyVars>>

LoadRolandPatch ==
    /\ pc = "rol_decoded"
    /\ rolLoaded' = load_patch_from_sysex(rolFile)
    /\ pc' = "rol_loaded"
    /\ UNCHANGED <<rolParts, rolFile, rolDecoded, packVars, codecVars, patchVars,
                   bankVars, slotVars, repairVars, lookupVars, jpVars, maskVars,
                   copyVars>>

NextRoland == WriteRoland \/ DecodeRoland \/ LoadRolandPatch

SpecRoland == InitRoland /\ [][NextRoland]_vars

\* (sum of the 4 address bytes + sum of the data bytes + c) mod 128 == 0
ChecksumHolds(msg) == SumRange(msg, 7, Len(msg) - 1) % 128 = 0

\* C22: encode_roland_sysex emits a checksum byte c in 0..127 with (address
\* bytes + data bytes + c) mod 128 = 0, and decode_roland_sysex returns a
\* payload only for a message whose checksum byte satisfies that equation; for
\* any other checksum byte it raises and returns nothing.
C22_RolandChecksum ==
    /\ (pc = "rol_file" /\ rolParts.check = -1 /\ ~rolParts.second) =>
          /\ rolFile[Len(rolFile) - 1] \in 0..127
          /\ ChecksumHolds(rolFile)
    /\ pc \in {"rol_decoded", "rol_loaded"} =>
          /\ ~rolDecoded.raised => ChecksumHolds(rolFile)
          /\ ~ChecksumHolds(rolFile) => (rolDecoded.raised /\ rolDecoded.payload = <<>>)
          /\ (~rolParts.second /\ rolParts.check = -1) =>
                (~rolDecoded.raised /\ rolDecoded.payload = rolParts.main)

\* a message whose bytes sum to a multiple of 128 got checksum 0 and decoded
C22_Witness ==
    /\ pc = "rol_decoded" /\ rolParts.check = -1
    /\ rolParts.main = <<64, 64>> /\ rolParts.address = 0
    /\ rolFile[Len(rolFile) - 1] = 0
    /\ ~rolDecoded.raised /\ rolDecoded.payload = <<64, 64>>

\* C23: load_patch_from_sysex rebuilds a full patch from a file that holds a
\* DT1 message with the first JP_PATCH_SIZE - 9 bytes at address A, optionally
\* followed by a second DT1 message with the last 9 bytes (address A + 0x172):
\* it returns address A, model id [0x00, 0x06] and raw_data equal to the first
\* payload followed by the second payload, or by zero bytes when it is absent.
C23_Jp8000Reassembly ==
    (pc = "rol_loaded" /\ rolParts.main = JpMain /\ rolParts.check = -1) =>
        /\ ~rolLoaded.raised
        /\ rolLoaded.address = rolParts.address
        /\ rolLoaded.header.model_id = <<0, 6>>
        /\ rolLoaded.patch.raw_data
              = JpMain \o (IF rolParts.second THEN JpExt ELSE [k \in 1..9 |-> 0])

-----------------------------------------------------------------------------
(* Rebuilding a decoded build *)

\* C24: for every record R that build_patch_bytes accepts (any voice mode, any
\* amp switch and distortion setting), decoding its output and building again
\* gives the same bytes: build_patch_bytes(extract_full_parameters(MS2000Patch(
\* build_patch_bytes(R)))) = build_patch_bytes(R).
C24_RebuildStability ==
    pc = "reparsed" => build_patch_bytes(jrecord2) = built

-----------------------------------------------------------------------------
(* The signed fields of an authored record *)

\* <<timbre offset, section, key, lowest, highest>> of the offset-64 fields
SignedFields ==
    { <<13, "osc2", "semitone", SEMITONE_MIN, SEMITONE_MAX>>,
      <<14, "osc2", "tune", -64, 63>>,
      <<22, "filter", "eg1_intensity", -64, 63>>,
      <<23, "filter", "velocity_sense", -64, 63>>,
      <<24, "filter", "kbd_track", -64, 63>>,
      <<26, "amp", "panpot", -64, 63>>,
      <<28, "amp", "velocity_sense", -64, 63>>,
      <<29, "amp", "kbd_track", -64, 63>>,
      <<45, "patch1", "intensity", -64, 63>>,
      <<47, "patch2", "intensity", -64, 63>>,
      <<49, "patch3", "intensity", -64, 63>>,
      <<51, "patch4", "intensity", -64, 63>> }

IsRoute(field) == field[2] \in {"patch1", "patch2", "patch3", "patch4"}

\* timbre[section][key] = v, the routes being under timbre["patch"]
SetSigned(timbre, field, v) ==
    IF IsRoute(field) THEN Put3(timbre, "patch", field[2], field[3], v)
    ELSE Put2(timbre, field[2], field[3], v)

\* section.get(key, 0) as encode_timbre reads it
GetSigned(timbre, field) ==
    IF IsRoute(field)
    THEN Get(Get(Get(timbre, "patch", EmptyDict), field[2], EmptyDict), field[3], 0)
    ELSE Get(Get(timbre, field[2], EmptyDict), field[3], 0)

\* the record of the tests with one signed field of timbre 1 set, or as a
\* Layer program whose timbre 2 has it set
SignedRecords ==
    {Put(EdgeCasePatch, "timbre1", SetSigned(EdgeTimbre, field, v)) :
        field \in SignedFields, v \in (-MaxSigned)..MaxSigned}
    \cup {Put(Put(EdgeCasePatch, "voice_mode", Str("Layer")), "timbre2",
              SetSigned(EdgeTimbre, field, v)) :
        field \in SignedFields, v \in (-MaxSigned)..MaxSigned}

InitSigned ==
    /\ pc = "record"
    /\ raw = ZeroPatch
    /\ changes = 0
    /\ jrecord \in SignedRecords
    /\ built = NotBuilt
    /\ jrecord2 = EmptyDict
    /\ IdlePack /\ IdleCodec /\ IdleBank /\ IdleTools

NextSigned == Build \/ Reextract

SpecSigned == InitSigned /\ [][NextSigned]_vars

SignedInDomain(timbre) ==
    \A field \in SignedFields :
        field[4] <= GetSigned(timbre, field) /\ GetSigned(timbre, field) <= field[5]

\* the timbre of the record that is encoded at the offset
TimbreAt(record, offset) ==
    Get(record, IF offset = TIMBRE1_OFFSET THEN "timbre1" ELSE "timbre2", EmptyDict)

\* C25: for a record without base bytes and every in-domain value v of each
\* signed field, build_patch_bytes writes exactly v + 64 (never the
\* signed-7-bit form v + 128) at timbre offset +13, +14, +22, +23, +24, +26,
\* +28, +29, +45, +47, +49 and +51; semitone +12 gives 76 and eg1 intensity
\* -21 gives 43.
C25_SignedFieldBytes ==
    (Built /\ ~HasBase(jrecord)) =>
        /\ (\A o \in EncodedTimbres(jrecord) : SignedInDomain(TimbreAt(jrecord, o)))
              => ~built.raised
        /\ ~built.raised =>
              \A o \in EncodedTimbres(jrecord), field \in SignedFields :
                  built.data[o + field[1]] = GetSigned(TimbreAt(jrecord, o), field) + 64

\* the record of the tests was built: 76 and 43, and a route of -63 gives 1
C25_Witness ==
    /\ pc = "built" /\ jrecord = EdgeCasePatch /\ ~built.raised
    /\ built.data[TIMBRE1_OFFSET + 13] = 76
    /\ built.data[TIMBRE1_OFFSET + 22] = 43
    /\ built.data[TIMBRE1_OFFSET + 45] = 1

-----------------------------------------------------------------------------
(* _write_masked on its own *)

MaskBuffers == { <<0, 255, 90>>, <<165, 15, 240>>, <<255, 255, 255>> }

MaskValues == {0, 1, 64, 85, 128, 170, 255}

\* a bytearray indexed from 0
AsBuffer(s) == [i \in 0..(Len(s) - 1) |-> s[i + 1]]

InitMask ==
    /\ pc = "mask_args"
    /\ \E s \in MaskBuffers, index \in 0..2, value \in MaskValues, mask \in 0..255 :
          maskIn = [data |-> AsBuffer(s), index |-> index, value |-> value, mask |-> mask]
    /\ maskOut = <<>>
    /\ IdlePack /\ IdleCodec /\ IdlePatch /\ IdleBank
    /\ IdleSlot /\ IdleRepair /\ IdleLookup
    /\ IdleRoland /\ IdleJp /\ IdleCopy

\* _write_masked(data, index, value, mask); maskOut is the buffer afterwards
WriteMasked ==
    /\ pc = "mask_args"
    /\ maskOut' = _write_masked(maskIn.data, maskIn.index, maskIn.value, maskIn.mask)
    /\ pc' = "masked"
    /\ UNCHANGED <<maskIn, packVars, codecVars, patchVars, bankVars, slotVars,
                   repairVars, lookupVars, rolandVars, jpVars, copyVars>>

NextMask == WriteMasked

SpecMask == InitMask /\ [][NextMask]_vars

\* C26: for every buffer, index, value and mask (0..255), _write_masked(data,
\* index, value, mask) sets the mask-selected bits of data[index] to those of
\* value and leaves every bit of data[index] outside mask, and every other
\* byte of the buffer, unchanged.
C26_MaskedWriteLocality ==
    pc = "masked" =>
        /\ DOMAIN maskOut = DOMAIN maskIn.data
        /\ maskOut[maskIn.index] \in 0..255
        /\ \A k \in 0..7 :
              Bit(maskOut[maskIn.index], k)
                = IF Bit(maskIn.mask, k) = 1 THEN Bit(maskIn.value, k)
                  ELSE Bit(maskIn.data[maskIn.index], k)
        /\ \A i \in DOMAIN maskIn.data :
              i # maskIn.index => maskOut[i] = maskIn.data[i]

\* value 0x55 under mask 0x0F into the byte 0xFF of <<0, 255, 90>>: 0xF5
C26_Witness ==
    /\ pc = "masked"
    /\ maskIn.data = AsBuffer(<<0, 255, 90>>) /\ maskIn.index = 1
    /\ maskIn.value = 85 /\ maskIn.mask = 15
    /\ maskOut = AsBuffer(<<0, 245, 90>>)

-----------------------------------------------------------------------------
(* The two flags of the amp byte *)

\* C27: amp switch and distortion are two distinct bits of the timbre amp byte
\* (+27): the decoder reports switch GATE exactly when bit 6 is set and
\* distortion exactly when bit 0 is set, which are the bits the encoder writes
\* for them, so the two settings decode independently of each other.
C27_AmpFlagBits ==
    (pc = "record" /\ Unedited /\ "timbre1" \in DOMAIN jrecord) =>
        /\ jrecord.timbre1.amp.switch = "GATE" <=> Bit(raw[TIMBRE1_OFFSET + 27], 6) = 1
        /\ jrecord.timbre1.amp.distortion <=> Bit(raw[TIMBRE1_OFFSET + 27], 0) = 1

-----------------------------------------------------------------------------
(* The signed helpers of jp8080_core *)

InitJp ==
    /\ \/ pc = "jp_value" /\ jpIn \in (-64)..63
       \/ pc = "jp_byte" /\ jpIn \in 0..127
    /\ jpOut = 0
    /\ IdlePack /\ IdleCodec /\ IdlePatch /\ IdleBank
    /\ IdleSlot /\ IdleRepair /\ IdleLookup
    /\ IdleRoland /\ IdleMask /\ IdleCopy

\* jpOut = _to_offset64(jpIn)
JpToOffset64 ==
    /\ pc = "jp_value"
    /\ jpOut' = jp_to_offset64(jpIn)
    /\ pc' = "jp_stored"
    /\ UNCHANGED <<jpIn, packVars, codecVars, patchVars, bankVars, slotVars,
                   repairVars, lookupVars, rolandVars, maskVars, copyVars>>

\* jpOut = _from_offset64(jpIn)
JpFromOffset64 ==
    /\ pc = "jp_byte"
    /\ jpOut' = jp_from_offset64(jpIn)
    /\ pc' = "jp_read"
    /\ UNCHANGED <<jpIn, packVars, codecVars, patchVars, bankVars, slotVars,
                   repairVars, lookupVars, rolandVars, maskVars, copyVars>>

NextJp == JpToOffset64 \/ JpFromOffset64

SpecJp == InitJp /\ [][NextJp]_vars

\* C28: jp8080_core._to_offset64(v) = v + 64 for every v in -64..63 and
\* jp8080_core._from_offset64(b) = b - 64 for every byte b in 0..127, so a
\* stored centre byte 0x40 decodes to 0.
C28_JpOffset64 ==
    /\ pc = "jp_stored" => jpOut = jpIn + 64
    /\ pc = "jp_read" => jpOut = jpIn - 64

-----------------------------------------------------------------------------
(* scripts/copy_patch.py *)

\* the 128 program slots of a bank in copy_patch, scaled down: 254 * 2 and
\* 254 * 128 bytes both leave 4 bytes in the last group of 7
CopyBankPatches == 2

\* the script's decoder: groups of 8 bytes; a shorter last group is dropped
RECURSIVE CopyDecodeFrom(_, _)
CopyDecodeFrom(encoded_data, i) ==
    IF i >= Len(encoded_data) \/ i + 8 > Len(encoded_data) THEN <<>>
    ELSE [j \in 1..7 |->
             Bit(encoded_data[i + 1], 7 - j) * 128 + (encoded_data[i + 1 + j] % 128)]
             \o CopyDecodeFrom(encoded_data, i + 8)

copy_decode_korg_7bit(encoded_data) == CopyDecodeFrom(encoded_data, 0)

\* the script's encoder: msb_byte |= 1 << (6 - j), the loop of the library's v1
copy_encode_korg_7bit(decoded_data) == EncodeFrom(decoded_data, 0, "v1")

\* data without its trailing zeros, terminated, when the last byte is not F7
CopyTerminated(data) ==
    IF data[Len(data)] # 247
    THEN SubSeq(data, 1, LastNonZero(data)) \o <<247>>
    ELSE data

\* decoded, zero-padded to CopyBankPatches patches when it holds fewer
CopyPadded(decoded) ==
    IF Len(decoded) \div PATCH_SIZE < CopyBankPatches
    THEN decoded \o Zeros(PATCH_SIZE * CopyBankPatches - Len(decoded))
    ELSE decoded

\* decoded[d_off : d_off + PATCH_SIZE] = decoded[s_off : s_off + PATCH_SIZE]
CopySlot(decoded, s_off, d_off) ==
    [k \in 1..Len(decoded) |->
        IF d_off < k /\ k <= d_off + PATCH_SIZE
        THEN decoded[s_off + (k - d_off)] ELSE decoded[k]]

\* what copy_patch writes for the decoded stream of the file
CopyWritten(header, stream, src_idx, dst_idx) ==
    LET total_patches == Max(Len(stream) \div PATCH_SIZE, CopyBankPatches)
        decoded       == CopyPadded(stream)
    IN  IF ~(1 <= src_idx /\ src_idx <= total_patches
             /\ 1 <= dst_idx /\ dst_idx <= total_patches)
        THEN [raised |-> TRUE, out |-> <<>>]
        ELSE [raised |-> FALSE,
              out |-> header
                      \o copy_encode_korg_7bit(
                             SubSeq(CopySlot(decoded, (src_idx - 1) * PATCH_SIZE,
                                             (dst_idx - 1) * PATCH_SIZE),
                                    1, PATCH_SIZE * total_patches))
                      \o <<247>>]

\* data is the content of the input file; out is the content written
copy_patch(data, src_idx, dst_idx) ==
    IF Len(data) < 6 \/ data[1] # 240 \/ data[2] # 66 \/ data[4] # 88 \/ data[5] # 76
    THEN [raised |-> TRUE, out |-> <<>>]
    ELSE CopyWritten(SubSeq(data, 1, 5),
                     copy_decode_korg_7bit(
                         SubSeq(CopyTerminated(data), 6, Len(CopyTerminated(data)) - 1)),
                     src_idx, dst_idx)

\* banks of CopyBankPatches programs
FullBanks == {DumpFile(0, 76, ps, <<>>) : ps \in [1..CopyBankPatches -> BankPatches]}

\* a bank of one program, a full bank without its terminator and followed by
\* zeros, a CURRENT PROGRAM DATA DUMP
OtherBanks ==
    {DumpFile(0, 76, <<p>>, <<>>) : p \in BankPatches}
    \cup {SubSeq(f, 1, Len(f) - 1) \o <<0, 0, 0>> :
             f \in {DumpFile(0, 76, [k \in 1..CopyBankPatches |-> TemplatePatch], <<>>)}}
    \cup {DumpFile(5, 64, <<TemplatePatch>>, <<>>)}

InitCopy ==
    /\ pc = "copy_args"
    /\ \E f \in FullBanks \cup OtherBanks,
          src \in 0..(CopyBankPatches + 1), dst \in 0..(CopyBankPatches + 1) :
          copyIn = [file |-> f, src |-> src, dst |-> dst]
    /\ copyOut = <<>>
    /\ IdlePack /\ IdleCodec /\ IdlePatch /\ IdleBank
    /\ IdleSlot /\ IdleRepair /\ IdleLookup
    /\ IdleRoland /\ IdleJp /\ IdleMask

\* copy_patch(input_path, src_idx, dst_idx, output_path)
CopyPatch ==
    /\ pc = "copy_args"
    /\ copyOut' = copy_patch(copyIn.file, copyIn.src, copyIn.dst)
    /\ pc' = "copied"
    /\ UNCHANGED <<copyIn, packVars, codecVars, patchVars, bankVars, slotVars,
                   repairVars, lookupVars, rolandVars, jpVars, maskVars>>

NextCopy == CopyPatch

SpecCopy == InitCopy /\ [][NextCopy]_vars

\* patch n (1-based) of a decoded stream
PatchOf(stream, n) == SubSeq(stream, (n - 1) * PATCH_SIZE + 1, n * PATCH_SIZE)

\* C29: for a well-formed full PROGRAM DATA DUMP and any src, dst in its slot
\* range, the bank written by copy_patch has as many patches, its patch dst
\* equals the input's patch src, and every other patch, the 5 header bytes and
\* the final 0xF7 are identical to the input (patches compared after
\* bit-unpacking both files with ms2000_core.decode_korg_7bit).
C29_CopyChangesOnlyDestination ==
    (/\ pc = "copied"
     /\ copyIn.file \in FullBanks
     /\ copyIn.src \in 1..CopyBankPatches
     /\ copyIn.dst \in 1..CopyBankPatches) =>
        /\ ~copyOut.raised
        /\ \A before \in {Payload(copyIn.file)}, after \in {Payload(copyOut.out)} :
              /\ Len(after) = PATCH_SIZE * CopyBankPatches
              /\ SubSeq(copyOut.out, 1, 5) = SubSeq(copyIn.file, 1, 5)
              /\ copyOut.out[Len(copyOut.out)] = 247
              /\ PatchOf(after, copyIn.dst) = PatchOf(before, copyIn.src)
              /\ \A n \in 1..CopyBankPatches :
                    n # copyIn.dst => PatchOf(after, n) = PatchOf(before, n)

-----------------------------------------------------------------------------
(* The repaired file as one message *)

\* the positions of 0xF7 in the data
Terminators(data) == {i \in 1..Len(data) : data[i] = 247}

\* no 0xF7 in the capture other than one terminator, which only 0x00 follows
OneTerminatorAtMost(data) ==
    \A i \in Terminators(data) : \A j \in (i + 1)..Len(data) : data[j] = 0

\* C30: for every accepted input whose payload holds no 0xF7 other than a
\* terminator, the file written by repair_sysex starts with 0xF0, ends with
\* 0xF7 and contains no other 0xF7; an input whose terminator is followed by
\* zero padding is repaired to the message ending in that single F7.
C30_OneWellFormedMessage ==
    (Repaired /\ OneTerminatorAtMost(repFile)) =>
        /\ repOut.data[1] = 240
        /\ Terminators(repOut.data) = {Len(repOut.data)}
        /\ Unpadded[Len(Unpadded)] = 247 => repOut.data = Unpadded

====
